---- MODULE Spec2Model ----
(***************************************************************************)
(* ESP-01 raw 802.11 radio bridge: UART ring buffers (uart.c), the length  *)
(* prefixed reassembler (main_timer_callback) and the raw 802.11 TX/RX     *)
(* layer (wifi_raw.c).                                                     *)
(*                                                                         *)
(* Two execution contexts.  The main context runs main_timer_callback; it  *)
(* is modelled step by step (pc), one shared-memory access per step.  The  *)
(* event context (UART RX interrupt, TX-done callback, promiscuous RX      *)
(* callback) preempts the main context between any two of its steps and    *)
(* runs to completion, so each handler is one action.                      *)
(*                                                                         *)
(* Sizes are scaled: the ring sizes stay powers of two (2^RxBits,          *)
(* 2^TxBits), MAX_PACKET_SIZE is a few bytes, bytes come from a three      *)
(* value alphabet.  Integer widths are kept (uint16_t arithmetic is taken  *)
(* modulo 65536).                                                          *)
(***************************************************************************)
EXTENDS Integers, Sequences, FiniteSets, TLC

\* ------------------------------------------------------------------ bounds

\* log2 of UART_RX_BUFFER_SIZE (1024 in user_config.h, scaled)
RxBits == 2
\* log2 of UART_TX_BUFFER_SIZE (1024 in user_config.h, scaled)
TxBits == 3
\* MAX_PACKET_SIZE (256 in user_config.h, scaled)
MAX_PACKET_SIZE == 2
\* total number of bytes the serial peer delivers in one run
MaxInput == 6
\* largest number of bytes one RX interrupt finds in the hardware FIFO
MaxFifoBatch == 2

\* bytes one uart0_tx_intr_handler run may move to the hardware FIFO
\* (tx_fifo_space = 128 in uart.c, scaled)
TX_FIFO_DEPTH == 2
\* number of frames the radio captures in one run
MaxFrames == 3
\* number of direct wifi_raw_send calls in one run
MaxApiCalls == 2
\* calls of wifi_reset_stats and uart_reset_stats in a run
MaxResets == 1
\* number of wifi_raw_set_channel calls in one run
MaxChannelCalls == 3
\* number of bytes the serial peer delivers in a run checked for progress
LiveInput == 5
\* MAX_PACKET_SIZE in the runs of the capture callback alone (256 in
\* user_config.h, scaled): as in the firmware, more than the bytes a capture
\* of the smallest accepted length holds behind the 802.11 header
CaptureMax == 6
\* log2 of UART_RX_BUFFER_SIZE in the runs where the ring has room for
\* two complete records
QueueBits == 3

\* --------------------------------------------------------------- constants

\* the number of elements of uart_rx_buffer in this build (a power of two),
\* fixed at construction
VARIABLE rx_size

UART_RX_BUFFER_SIZE == rx_size
UART_TX_BUFFER_SIZE == 2 ^ TxBits
RX_BUFFER_MASK == UART_RX_BUFFER_SIZE - 1
TX_BUFFER_MASK == UART_TX_BUFFER_SIZE - 1
IEEE80211_HEADER_SIZE == 24
IEEE80211_FC_PROBE_REQ == 64
IEEE80211_FCTL_FTYPE == 12
IEEE80211_FCTL_MGMT == 0
\* sizeof(struct RxControl): three 32-bit words of bit fields
SIZEOF_RXCONTROL == 12
WIFI_DEFAULT_CHANNEL == 11
U16 == 2 ^ 16

\* byte values on the serial line and in payloads
Byte == {0, 1, 2}

broadcast_mac == <<255, 255, 255, 255, 255, 255>>
custom_bssid == <<170, 187, 204, 221, 238, 0>>
\* what wifi_get_macaddr(STATION_IF, ..) returns on this device
station_mac == <<92, 207, 127, 0, 0, 1>>

\* x & (2^k - 1) for x >= 0
AndMask(x, mask) == x % (mask + 1)

RX_INCREMENT(idx) == AndMask(idx + 1, RX_BUFFER_MASK)
TX_INCREMENT(idx) == AndMask(idx + 1, TX_BUFFER_MASK)


\* a & b on non-negative integers
RECURSIVE BitAnd(_, _)
BitAnd(a, b) ==
    IF a = 0 \/ b = 0 THEN 0
    ELSE (a % 2) * (b % 2) + 2 * BitAnd(a \div 2, b \div 2)

\* --------------------------------------------------------------- variables

VARIABLES
    \* uart.c: RX ring (written by the ISR, read by the main context)
    uart_rx_buffer, uart_rx_head, uart_rx_tail, uart_rx_overflow_count,
    \* main_timer_callback statics and the packet assembly buffer
    pkt_expected, pkt_received, packet_buffer,
    \* main context: position and the locals of the running calls
    pc, len_bytes, rd_dest, rd_max, rd_count, ws_args, ws_caller,
    \* wifi_raw.c: TX side
    tx_frame_buffer, tx_sequence, tx_ready, tx_count, tx_error_count,
    \* history: bytes the RX ISR stored, bytes uart_read_bytes returned,
    \* wifi_raw_send calls, frames in flight, built sequence fields,
    \* bytes stored when the running tick began
    rx_accepted, rx_consumed, sent, outstanding, seq_log, tick_start,
    \* history: for the record being accumulated, the ticks that ended with
    \* it incomplete (counted up to 2) and whether one of them found no byte
    \* to read; direct wifi_raw_send calls so far
    \* and calls of a reset function so far
    frag, api_calls, resets,
    \* the SDK's current radio channel (wifi_set_channel stores it,
    \* wifi_get_channel returns it); history: the arguments of the
    \* wifi_raw_set_channel calls so far
    channel, chan_log,
    \* uart.c: TX ring (written by uart_write_bytes, read by the TX handler)
    \* and the TXFIFO_EMPTY bit of UART_INT_ENA
    uart_tx_buffer, uart_tx_head, uart_tx_tail, uart_tx_overflow_count,
    txfifo_empty_int_ena,
    \* wifi_raw.c: RX side, and the position and locals of a running
    \* wifi_promiscuous_rx_cb
    rx_count, rx_drop_count, cb_pc, cb_payload,
    \* history: bytes uart_write_bytes stored, bytes written to the UART
    \* FIFO, the last uart_write_bytes call, captured frames so far, and of
    \* the last captured frame the filter conditions it failed, its
    \* legacy_length and the bytes after its header, with the free slots of
    \* the TX ring and the number of bytes stored in it when the frame came
    tx_accepted, hw_fifo, uwb_last, frames_seen, cb_in

rxring == <<uart_rx_buffer, uart_rx_head, uart_rx_tail, uart_rx_overflow_count,
            rx_size>>
reasm == <<pkt_expected, pkt_received, packet_buffer>>
mainctx == <<pc, len_bytes, rd_dest, rd_max, rd_count, ws_args, ws_caller>>
wifitx == <<tx_frame_buffer, tx_sequence, tx_ready, tx_count, tx_error_count>>
chan == <<channel, chan_log>>
hist == <<rx_accepted, rx_consumed, sent, outstanding, seq_log, tick_start,
          frag, api_calls, resets, chan>>
txring == <<uart_tx_buffer, uart_tx_head, uart_tx_tail, uart_tx_overflow_count,
            txfifo_empty_int_ena>>
wifirx == <<rx_count, rx_drop_count, cb_pc, cb_payload>>
histrx == <<tx_accepted, hw_fifo, uwb_last, frames_seen, cb_in>>
down == <<txring, wifirx, histrx>>
vars == <<rxring, reasm, mainctx, wifitx, hist, down>>

NoArgs == [null |-> FALSE, data |-> <<>>, len |-> 0]
NoWrite == [len |-> 0, free |-> 0, ret |-> 0]
NoFrag == [ticks |-> 0, empty |-> FALSE]
NoFrame == [failed |-> {}, legacy_length |-> 0, body |-> <<>>, free |-> 0, acc |-> 0,
            len |-> 0, rx0 |-> 0]

InitSized(bits, seq0, count0, rx_lost0) ==
    /\ rx_size = 2 ^ bits
    /\ uart_rx_buffer = [i \in 0 .. 2 ^ bits - 1 |-> 0]
    /\ uart_rx_head = 0
    /\ uart_rx_tail = 0
    /\ uart_rx_overflow_count = rx_lost0
    /\ pkt_expected = 0
    /\ pkt_received = 0
    /\ packet_buffer = [i \in 0 .. MAX_PACKET_SIZE - 1 |-> 0]
    /\ pc = "idle"
    /\ len_bytes = <<0, 0>>
    /\ rd_dest = "none"
    /\ rd_max = 0
    /\ rd_count = 0
    /\ ws_args = NoArgs
    /\ ws_caller = "none"
    /\ tx_frame_buffer =
          IF seq0 = 0
          THEN [frame_control |-> 0, duration_id |-> 0,
                addr1 |-> <<0, 0, 0, 0, 0, 0>>,
                addr2 |-> <<0, 0, 0, 0, 0, 0>>,
                addr3 |-> <<0, 0, 0, 0, 0, 0>>,
                seq_ctrl |-> 0,
                payload |-> [i \in 0 .. MAX_PACKET_SIZE - 1 |-> 0]]
          ELSE [frame_control |-> IEEE80211_FC_PROBE_REQ, duration_id |-> 0,
                addr1 |-> broadcast_mac,
                addr2 |-> station_mac,
                addr3 |-> custom_bssid,
                seq_ctrl |-> ((seq0 - 1) * 16) % U16,
                payload |-> [i \in 0 .. MAX_PACKET_SIZE - 1 |-> 0]]
    /\ tx_sequence = seq0
    /\ tx_ready = 1
    /\ tx_count = count0
    /\ tx_error_count = count0
    /\ rx_accepted = <<>>
    /\ rx_consumed = <<>>
    /\ sent = <<>>
    /\ outstanding = 0
    /\ seq_log = <<>>
    /\ tick_start = 0
    /\ frag = NoFrag
    /\ api_calls = 0
    /\ resets = 0
    /\ channel = WIFI_DEFAULT_CHANNEL
    /\ chan_log = <<>>
    /\ uart_tx_buffer = [i \in 0 .. UART_TX_BUFFER_SIZE - 1 |-> 0]
    /\ uart_tx_head = 0
    /\ uart_tx_tail = 0
    /\ uart_tx_overflow_count = count0
    /\ txfifo_empty_int_ena = FALSE
    /\ rx_count = count0
    /\ rx_drop_count = count0
    /\ cb_pc = "idle"
    /\ cb_payload = <<>>
    /\ tx_accepted = <<>>
    /\ hw_fifo = <<>>
    /\ uwb_last = NoWrite
    /\ frames_seen = 0
    /\ cb_in = NoFrame

\* the build whose RX ring has 2^RxBits elements
InitAt(seq0, count0, rx_lost0) == InitSized(RxBits, seq0, count0, rx_lost0)

InitFrom(seq0) == InitAt(seq0, 0, 0)

Init == InitFrom(0)

\* ------------------------------------------------------------- UART RX ISR

\* the byte is stored without the test for a full ring
RxStoreNoFullTest(r, byte) ==
    [r EXCEPT !.buf = [r.buf EXCEPT ![r.head] = byte],
              !.head = RX_INCREMENT(r.head),
              !.acc = Append(r.acc, byte)]

\* a byte that finds the ring full takes the place of the oldest one: the
\* handler moves the read index on
RxStoreDropsOldest(r, byte) ==
    LET next_head == RX_INCREMENT(r.head) IN
    IF next_head # r.tail
    THEN [r EXCEPT !.buf = [r.buf EXCEPT ![r.head] = byte],
                   !.head = next_head,
                   !.acc = Append(r.acc, byte)]
    ELSE [r EXCEPT !.buf = [r.buf EXCEPT ![r.head] = byte],
                   !.head = next_head,
                   !.tail = RX_INCREMENT(r.tail),
                   !.ovf = r.ovf + 1]

\* a byte that finds the ring full is written over the newest buffered byte
RxStoreOverNewest(r, byte) ==
    LET next_head == RX_INCREMENT(r.head) IN
    IF next_head # r.tail
    THEN [r EXCEPT !.buf = [r.buf EXCEPT ![r.head] = byte],
                   !.head = next_head,
                   !.acc = Append(r.acc, byte)]
    ELSE [r EXCEPT !.buf = [r.buf EXCEPT ![(r.head - 1) % UART_RX_BUFFER_SIZE] = byte],
                   !.ovf = r.ovf + 1]

\* a byte that finds the ring full takes the overflow counter down
RxStoreCountsDown(r, byte) ==
    LET next_head == RX_INCREMENT(r.head) IN
    IF next_head # r.tail
    THEN [r EXCEPT !.buf = [r.buf EXCEPT ![r.head] = byte],
                   !.head = next_head,
                   !.acc = Append(r.acc, byte)]
    ELSE [r EXCEPT !.ovf = r.ovf - 1]

\* One pass of the ISR's while loop body for one byte of the hardware FIFO.
RxStore(r, byte) ==
    LET next_head == RX_INCREMENT(r.head) IN
    IF next_head # r.tail
    THEN [r EXCEPT !.buf = [r.buf EXCEPT ![r.head] = byte],
                   !.head = next_head,
                   !.acc = Append(r.acc, byte)]
    ELSE [r EXCEPT !.ovf = r.ovf + 1]

RECURSIVE RxLoop(_, _)
RxLoop(r, bytes) ==
    IF bytes = <<>> THEN r ELSE RxLoop(RxStore(r, Head(bytes)), Tail(bytes))

FifoBatches == UNION {[1 .. n -> Byte] : n \in 1 .. MaxFifoBatch}

\* A run exercises one source of input: bytes on the serial line, frames
\* captured by the radio, or direct calls of wifi_raw_send.  The serial-to-
\* radio direction and the radio-to-serial direction have no variable in
\* common.
SerialQuiet == rx_accepted = <<>>
RadioQuiet == frames_seen = 0
ApiQuiet == api_calls = 0

\* A reset call is the last input of a run: serial bytes arrive before the
\* call and while it runs, none after it has returned; in a run of captured
\* frames the call comes after the last frame.
ResetPcs == {"wrs_rx", "wrs_err", "wrs_drop", "urs_tx"}
InputOpen == resets = 0 \/ pc \in ResetPcs
RadioOpen == resets = 0
ResetOpen == resets < MaxResets /\ (RadioQuiet \/ frames_seen = MaxFrames)

\* one run of the handler that finds bytes in the hardware FIFO
RxIntr(bytes) ==
    /\ LET r == RxLoop([buf |-> uart_rx_buffer, head |-> uart_rx_head,
                        tail |-> uart_rx_tail, ovf |-> uart_rx_overflow_count,
                        acc |-> rx_accepted], bytes)
       IN /\ uart_rx_buffer' = r.buf
          /\ uart_rx_head' = r.head
          /\ uart_rx_tail' = r.tail
          /\ uart_rx_overflow_count' = r.ovf
          /\ rx_accepted' = r.acc
    /\ UNCHANGED <<rx_size, down, reasm, mainctx, wifitx,
                   rx_consumed, sent, outstanding, seq_log, tick_start, frag, api_calls, resets, chan>>

uart0_rx_intr_handler ==
    /\ InputOpen
    /\ RadioQuiet
    /\ ApiQuiet
    /\ cb_pc = "idle"
    /\ \E bytes \in FifoBatches :
        /\ Len(rx_accepted) + uart_rx_overflow_count + Len(bytes) <= MaxInput
        /\ RxIntr(bytes)

\* the subtraction taken the wrong way round when the ring has wrapped
UartRxAvailableNoWrap ==
    IF uart_rx_head >= uart_rx_tail THEN uart_rx_head - uart_rx_tail
    ELSE uart_rx_tail - uart_rx_head

\* ------------------------------------------------------- uart_rx_available

uart_rx_available ==
    LET head == uart_rx_head
        tail == uart_rx_tail
    IN IF head >= tail THEN head - tail
       ELSE (UART_RX_BUFFER_SIZE - tail + head) % U16

\* --------------------------------------------------- main_timer_callback

\* the main context runs only while no event handler does
MainRuns == cb_pc = "idle"

\* uart_read_bytes(buffer, max_len) is entered: count = 0
StartRead(dest, max_len) ==
    /\ pc' = "rd_chk"
    /\ rd_dest' = dest
    /\ rd_max' = max_len
    /\ rd_count' = 0

\* the prefix is read as soon as one byte is available
HeaderAvailableOne(avail) == avail >= 1

\* uart_rx_available() >= 2
HeaderAvailable(avail) == avail >= 2

\* Start of a tick: the WAIT_HEADER test and, there, uart_rx_available() >= 2
TickStart ==
    /\ MainRuns
    /\ pc = "idle"
    /\ tick_start' = Len(rx_accepted)
    /\ IF pkt_expected = 0
       THEN IF HeaderAvailable(uart_rx_available)
            THEN StartRead("hdr", 2)
            ELSE UNCHANGED <<pc, rd_dest, rd_max, rd_count>>
       ELSE /\ pc' = "acc_avail"
            /\ UNCHANGED <<rd_dest, rd_max, rd_count>>
    /\ UNCHANGED <<down, rxring, reasm, len_bytes, ws_args, ws_caller, wifitx,
                   rx_accepted, rx_consumed, sent, outstanding, seq_log,
                   frag, api_calls, resets, chan>>

\* the loop runs for as long as the ring holds a byte
ReadMoreNoLimit(count, max_len) == uart_rx_tail # uart_rx_head

\* count < max_len && uart_rx_tail != uart_rx_head
ReadMore(count, max_len) == count < max_len /\ uart_rx_tail # uart_rx_head

\* uart_read_bytes: the while condition, and the return when it fails
ReadCheck ==
    /\ MainRuns
    /\ pc = "rd_chk"
    /\ IF ReadMore(rd_count, rd_max)
       THEN /\ pc' = "rd_slot"
            /\ UNCHANGED <<rd_dest, rd_max, rd_count, pkt_received>>
       ELSE /\ IF rd_dest = "hdr"
               THEN pc' = "hdr_done" /\ UNCHANGED pkt_received
               ELSE /\ pc' = "acc_chk"
                    /\ pkt_received' = (pkt_received + rd_count) % U16
            /\ rd_dest' = "none"
            /\ rd_max' = 0
            /\ rd_count' = 0
    /\ UNCHANGED <<down, rxring, pkt_expected, packet_buffer, len_bytes, ws_args,
                   ws_caller, wifitx, hist>>

\* uart_read_bytes: buffer[count++] = uart_rx_buffer[uart_rx_tail]
ReadSlot ==
    /\ MainRuns
    /\ pc = "rd_slot"
    /\ LET byte == uart_rx_buffer[uart_rx_tail] IN
       /\ IF rd_dest = "hdr"
          THEN /\ len_bytes' = [len_bytes EXCEPT ![rd_count + 1] = byte]
               /\ UNCHANGED packet_buffer
          ELSE /\ packet_buffer' =
                    [packet_buffer EXCEPT ![pkt_received + rd_count] = byte]
               /\ UNCHANGED len_bytes
       /\ rx_consumed' = Append(rx_consumed, byte)
    /\ rd_count' = rd_count + 1
    /\ pc' = "rd_tail"
    /\ UNCHANGED <<down, rxring, pkt_expected, pkt_received, rd_dest, rd_max,
                   ws_args, ws_caller, wifitx,
                   rx_accepted, sent, outstanding, seq_log, tick_start, frag, api_calls, resets, chan>>

\* uart_read_bytes: uart_rx_tail = RX_INCREMENT(uart_rx_tail)
ReadTail ==
    /\ MainRuns
    /\ pc = "rd_tail"
    /\ uart_rx_tail' = RX_INCREMENT(uart_rx_tail)
    /\ pc' = "rd_chk"
    /\ UNCHANGED <<down, rx_size, uart_rx_buffer, uart_rx_head, uart_rx_overflow_count, reasm,
                   len_bytes, rd_dest, rd_max, rd_count, ws_args, ws_caller,
                   wifitx, hist>>

\* the prefix read least significant byte first
Be16LittleEndian(hi, lo) == (lo * 256 + hi) % U16

\* (len_bytes[0] << 8) | len_bytes[1], stored in a uint16_t
Be16(hi, lo) == (hi * 256 + lo) % U16

\* only a prefix of zero is discarded
BadLengthZeroOnly(len) == len = 0

\* the prefix test of WAIT_HEADER
BadLength(len) == len = 0 \/ len > MAX_PACKET_SIZE

\* WAIT_HEADER after the two prefix bytes were read
HdrDone ==
    /\ MainRuns
    /\ pc = "hdr_done"
    /\ LET len == Be16(len_bytes[1], len_bytes[2]) IN
       IF BadLength(len)
       THEN pkt_expected' = 0 /\ pc' = "idle"
       ELSE pkt_expected' = len /\ pc' = "acc_avail"
    /\ pkt_received' = 0
    /\ len_bytes' = <<0, 0>>
    /\ UNCHANGED <<down, rxring, packet_buffer, rd_dest, rd_max, rd_count, ws_args,
                   ws_caller, wifitx, hist>>

\* the read is limited by the size of packet_buffer, not by what the
\* record still lacks
ToReadUpToMax(avail, remaining) ==
    IF avail < MAX_PACKET_SIZE THEN avail ELSE MAX_PACKET_SIZE

\* one byte past the end of the record is read when the ring holds it
ToReadOneMore(avail, remaining) == IF avail <= remaining THEN avail ELSE remaining + 1

\* every available byte is read, whatever the record still lacks
ToReadAvail(avail, remaining) == avail

\* to_read = (avail < remaining) ? avail : remaining
ToRead(avail, remaining) == IF avail < remaining THEN avail ELSE remaining

\* ACCUMULATE: remaining, avail, to_read and the read when to_read > 0
AccAvail ==
    /\ MainRuns
    /\ pc = "acc_avail"
    /\ LET remaining == (pkt_expected - pkt_received) % U16
           avail == uart_rx_available
           to_read == ToRead(avail, remaining)
       IN IF to_read > 0
          THEN StartRead("pkt", to_read) /\ UNCHANGED frag
          ELSE /\ pc' = "acc_chk"
               /\ frag' = [frag EXCEPT !.empty = TRUE]
               /\ UNCHANGED <<rd_dest, rd_max, rd_count>>
    /\ UNCHANGED <<down, rxring, reasm, len_bytes, ws_args, ws_caller, wifitx,
                   rx_accepted, rx_consumed, sent, outstanding, seq_log,
                   tick_start, api_calls, resets, chan>>

\* the first len bytes behind a pointer into packet_buffer
BufferBytes(buf, len) == [i \in 1 .. len |-> buf[i - 1]]

\* the record is complete only with more bytes than the prefix announced
PacketCompleteBeyond(received, expected) == received > expected

\* pkt_received >= pkt_expected
PacketComplete(received, expected) == received >= expected

\* ACCUMULATE: the completion test and the call of wifi_raw_send
AccChk ==
    /\ MainRuns
    /\ pc = "acc_chk"
    /\ IF PacketComplete(pkt_received, pkt_expected)
       THEN /\ pc' = "ws_entry"
            /\ ws_args' = [null |-> FALSE,
                           data |-> BufferBytes(packet_buffer, pkt_expected),
                           len |-> pkt_expected]
            /\ ws_caller' = "tick"
            /\ UNCHANGED frag
       ELSE /\ pc' = "idle"
            /\ frag' = [frag EXCEPT !.ticks = IF frag.ticks < 2 THEN frag.ticks + 1 ELSE 2]
            /\ UNCHANGED <<ws_args, ws_caller>>
    /\ UNCHANGED <<down, rxring, reasm, len_bytes, rd_dest, rd_max, rd_count,
                   wifitx, rx_accepted, rx_consumed, sent, outstanding, seq_log,
                   tick_start, api_calls, resets, chan>>

\* ----------------------------------------------------------- wifi_raw_send

\* the record stays in ACCUMULATE when wifi_raw_send has failed
ExpectedKeptOnFailure(ret, expected) == IF ret = 0 THEN 0 ELSE expected

\* pkt_expected after the call: the result of wifi_raw_send is not read
ExpectedAfterSend(ret, expected) == 0

\* wifi_raw_send returns ret to its caller; the tick then leaves ACCUMULATE
ReturnFromSend(ret) ==
    /\ pc' = "idle"
    /\ ws_args' = NoArgs
    /\ ws_caller' = "none"
    /\ IF ws_caller = "tick"
       THEN /\ pkt_expected' = ExpectedAfterSend(ret, pkt_expected)
            /\ pkt_received' = 0
            /\ frag' = NoFrag
       ELSE UNCHANGED <<pkt_expected, pkt_received, frag>>

\* the length of the payload passed as the length of the frame
FrameLenPayloadOnly(len) == len % U16

\* uint16_t frame_len = IEEE80211_HEADER_SIZE + len
FrameLen(len) == (IEEE80211_HEADER_SIZE + len) % U16

\* the record of a wifi_raw_send call that returns ret, with the length
\* passed to wifi_send_pkt_freedom if the call got that far
SentEntry(ret) ==
    [data |-> ws_args.data, len |-> ws_args.len, null |-> ws_args.null,
     ret |-> ret, caller |-> ws_caller, frag |-> frag,
     frame_len |-> IF pc = "ws_send" THEN FrameLen(ws_args.len) ELSE 0]

\* the validation without the upper limit on len
InvalidInputNoLimit(a) == a.null \/ a.len = 0

\* raw_data == NULL || len == 0 || len > MAX_PACKET_SIZE
InvalidInput(a) == a.null \/ a.len = 0 \/ a.len > MAX_PACKET_SIZE

\* the tx_ready test never rejects
TxNeverBusy == FALSE

\* !tx_ready
TxBusy == tx_ready = 0

\* a failed call leaves tx_error_count as it was
ErrorNotCounted(count) == count

\* tx_error_count++
ErrorCounted(count) == count + 1

\* input validation and the tx_ready test
WsEntry ==
    /\ MainRuns
    /\ pc = "ws_entry"
    /\ IF InvalidInput(ws_args) \/ TxBusy
       THEN /\ tx_error_count' = ErrorCounted(tx_error_count)
            /\ sent' = Append(sent, SentEntry(-1))
            /\ ReturnFromSend(-1)
       ELSE /\ pc' = "ws_build"
            /\ UNCHANGED <<tx_error_count, sent, ws_args, ws_caller,
                           pkt_expected, pkt_received, frag>>
    /\ UNCHANGED <<down, rxring, packet_buffer, len_bytes, rd_dest, rd_max, rd_count,
                   tx_frame_buffer, tx_sequence, tx_ready, tx_count,
                   rx_accepted, rx_consumed, outstanding, seq_log, tick_start,
                   api_calls, resets, chan>>

\* the counter stored without the shift past the fragment bits
SeqCtrlNoShift(seq) == seq % U16

\* hdr->seq_ctrl = (tx_sequence << 4) & 0xFFF0
SeqCtrl(seq) == (seq * 16) % U16

\* tx_sequence++ on a uint16_t
NextSeq(seq) == (seq + 1) % U16

\* a header with the frame type of a data frame
BuildDataHeader(frame) ==
    [frame EXCEPT !.frame_control = 8,
                  !.duration_id = 0,
                  !.addr1 = broadcast_mac,
                  !.addr2 = station_mac,
                  !.addr3 = custom_bssid,
                  !.seq_ctrl = (tx_sequence * 16) % U16]

build_80211_header(frame) ==
    [frame EXCEPT !.frame_control = IEEE80211_FC_PROBE_REQ,
                  !.duration_id = 0,
                  !.addr1 = broadcast_mac,
                  !.addr2 = station_mac,
                  !.addr3 = custom_bssid,
                  !.seq_ctrl = SeqCtrl(tx_sequence)]

\* os_memcpy(tx_frame_buffer + IEEE80211_HEADER_SIZE, raw_data, len)
CopyPayload(frame, data, len) ==
    [frame EXCEPT !.payload =
        [i \in DOMAIN frame.payload |-> IF i < len THEN data[i + 1]
                                        ELSE frame.payload[i]]]

\* header, payload copy, tx_ready = 0
WsBuild ==
    /\ MainRuns
    /\ pc = "ws_build"
    /\ tx_frame_buffer' =
          CopyPayload(build_80211_header(tx_frame_buffer), ws_args.data, ws_args.len)
    /\ seq_log' = Append(seq_log, SeqCtrl(tx_sequence))
    /\ tx_sequence' = NextSeq(tx_sequence)
    /\ tx_ready' = 0
    /\ pc' = "ws_send"
    /\ UNCHANGED <<down, rxring, reasm, len_bytes, rd_dest, rd_max, rd_count, ws_args,
                   ws_caller, tx_count, tx_error_count,
                   rx_accepted, rx_consumed, sent, outstanding, tick_start, frag, api_calls, resets, chan>>

\* the flag is left cleared when the SDK refuses the frame
ReadyKeptOnFailure(result, ready) == ready

\* tx_ready after wifi_send_pkt_freedom has returned result: the else branch
\* stores 1 ("Reset on failure so we can retry")
ReadyAfterSend(result, ready) == IF result = 0 THEN ready ELSE 1

\* wifi_send_pkt_freedom(tx_frame_buffer, frame_len, 0) and its result
WsSend ==
    /\ MainRuns
    /\ pc = "ws_send"
    /\ \E result \in {0, -1} :
          /\ tx_ready' = ReadyAfterSend(result, tx_ready)
          /\ IF result = 0
             THEN /\ tx_count' = tx_count + 1
                  /\ outstanding' = outstanding + 1
                  /\ UNCHANGED tx_error_count
             ELSE /\ tx_error_count' = ErrorCounted(tx_error_count)
                  /\ UNCHANGED <<tx_count, outstanding>>
          /\ sent' = Append(sent, SentEntry(result))
          /\ ReturnFromSend(result)
    /\ UNCHANGED <<down, rxring, packet_buffer, len_bytes, rd_dest, rd_max, rd_count,
                   tx_frame_buffer, tx_sequence,
                   rx_accepted, rx_consumed, seq_log, tick_start, api_calls, resets, chan>>

\* the notification leaves the flag as it finds it
ReadyKeptOnCompletion(ready) == ready

\* tx_ready = 1
ReadyAfterCompletion(ready) == 1

\* the SDK reports that the frame in flight has been sent
wifi_freedom_tx_cb ==
    /\ cb_pc = "idle"
    /\ outstanding > 0
    /\ tx_ready' = ReadyAfterCompletion(tx_ready)
    /\ outstanding' = outstanding - 1
    /\ UNCHANGED <<down, rxring, reasm, mainctx, tx_frame_buffer, tx_sequence,
                   tx_count, tx_error_count,
                   rx_accepted, rx_consumed, sent, seq_log, tick_start, frag, api_calls, resets, chan>>

\* ------------------------------------------- uart.c: TX ring and handler

\* uart0_tx_intr_handler: the while loop, tx_fifo_space bytes at most
RECURSIVE TxDrain(_, _)
TxDrain(t, tx_fifo_space) ==
    IF tx_fifo_space > 0 /\ t.tail # t.head
    THEN TxDrain([t EXCEPT !.fifo = Append(t.fifo, t.buf[t.tail]),
                           !.tail = TX_INCREMENT(t.tail)],
                 tx_fifo_space - 1)
    ELSE t

\* uart0_tx_intr_handler; st is the TXFIFO_EMPTY bit it reads in UART_INT_ST
uart0_tx_intr_handler(t, st) ==
    IF st
    THEN LET d == TxDrain(t, TX_FIFO_DEPTH) IN
         IF d.tail = d.head THEN [d EXCEPT !.ena = FALSE] ELSE d
    ELSE t

\* the loop counting every byte it does not store
RECURSIVE WriteLoopCountsBytes(_, _, _)
WriteLoopCountsBytes(t, data, len) ==
    IF t.count < len
    THEN LET next_head == TX_INCREMENT(t.head) IN
         IF next_head = t.tail
         THEN [t EXCEPT !.ovf = t.ovf + (len - t.count)]
         ELSE WriteLoopCountsBytes(
                 [t EXCEPT !.buf = [t.buf EXCEPT ![t.head] = data[t.count + 1]],
                           !.head = next_head,
                           !.acc = Append(t.acc, data[t.count + 1]),
                           !.count = t.count + 1],
                 data, len)
    ELSE t

\* the loop testing for a full ring also once every byte is stored
RECURSIVE WriteLoopCountsFull(_, _, _)
WriteLoopCountsFull(t, data, len) ==
    LET next_head == TX_INCREMENT(t.head) IN
    IF next_head = t.tail
    THEN [t EXCEPT !.ovf = t.ovf + 1]
    ELSE IF t.count < len
    THEN WriteLoopCountsFull(
            [t EXCEPT !.buf = [t.buf EXCEPT ![t.head] = data[t.count + 1]],
                      !.head = next_head,
                      !.acc = Append(t.acc, data[t.count + 1]),
                      !.count = t.count + 1],
            data, len)
    ELSE t

\* uart_write_bytes: the while loop (count bytes are stored so far)
RECURSIVE WriteLoop(_, _, _)
WriteLoop(t, data, len) ==
    IF t.count < len
    THEN LET next_head == TX_INCREMENT(t.head) IN
         IF next_head = t.tail
         THEN [t EXCEPT !.ovf = t.ovf + 1]
         ELSE WriteLoop([t EXCEPT !.buf = [t.buf EXCEPT ![t.head] = data[t.count + 1]],
                                  !.head = next_head,
                                  !.acc = Append(t.acc, data[t.count + 1]),
                                  !.count = t.count + 1],
                        data, len)
    ELSE t

\* uart_write_bytes(data, len); the UART interrupt is masked throughout
uart_write_bytes(t0, data, len, st) ==
    LET t == WriteLoop([t0 EXCEPT !.count = 0], data, len) IN
    IF t.tail # t.head
    THEN uart0_tx_intr_handler([t EXCEPT !.ena = TRUE], st)
    ELSE t

TxRing == [buf |-> uart_tx_buffer, head |-> uart_tx_head, tail |-> uart_tx_tail,
           ovf |-> uart_tx_overflow_count, ena |-> txfifo_empty_int_ena,
           acc |-> tx_accepted, fifo |-> hw_fifo, count |-> 0]

\* free slots of the TX ring: capacity - 1 - occupancy
TxFree == UART_TX_BUFFER_SIZE - 1
          - ((uart_tx_head - uart_tx_tail) % UART_TX_BUFFER_SIZE)

\* a call uart_write_bytes(data, len) made by the running callback
CallWriteBytes(data, len) ==
    \E st \in BOOLEAN :
        LET t == uart_write_bytes(TxRing, data, len, st) IN
        /\ uart_tx_buffer' = t.buf
        /\ uart_tx_head' = t.head
        /\ uart_tx_tail' = t.tail
        /\ uart_tx_overflow_count' = t.ovf
        /\ txfifo_empty_int_ena' = t.ena
        /\ tx_accepted' = t.acc
        /\ hw_fifo' = t.fifo
        /\ uwb_last' = [len |-> len, free |-> TxFree, ret |-> t.count]

\* ------------------------------------------------- wifi_promiscuous_rx_cb

other_bssid == <<170, 187, 204, 221, 238, 1>>

\* byte values of payloads
PayloadByte == {1, 2}

\* a payload of n bytes that begins with b and alternates between the two
\* values, so that no two neighbouring bytes are equal
Ramp(b, n) == [i \in 1 .. n |-> IF i % 2 = 1 THEN b ELSE 3 - b]

\* captured frames: the RxControl fields the callback reads, the captured
\* length, the header fields it reads and the bytes after the header
Frames ==
    [sig_mode : {0, 1},
     len : {SIZEOF_RXCONTROL + 27, SIZEOF_RXCONTROL + 28},
     frame_control : {IEEE80211_FC_PROBE_REQ, 8},
     addr3 : {custom_bssid, other_bssid},
     legacy_length : 27 .. 28 + MAX_PACKET_SIZE + 1,
     body : {Ramp(b, MAX_PACKET_SIZE) : b \in PayloadByte}]

\* uint16_t payload_len = rx_ctrl->legacy_length - IEEE80211_HEADER_SIZE - 4
PayloadLen(legacy_length) == (legacy_length - IEEE80211_HEADER_SIZE - 4) % U16

\* the conditions of the filter stages that a frame fails, each taken alone
FailedStages(f) ==
    {c \in {"sig_mode", "len", "ftype", "addr3", "payload_len"} :
        \/ c = "sig_mode" /\ f.sig_mode # 0
        \/ c = "len" /\ f.len < SIZEOF_RXCONTROL + 28
        \/ c = "ftype" /\ BitAnd(f.frame_control, IEEE80211_FCTL_FTYPE)
                              # IEEE80211_FCTL_MGMT
        \/ c = "addr3" /\ f.addr3 # custom_bssid
        \/ c = "payload_len" /\ PayloadLen(f.legacy_length) > MAX_PACKET_SIZE}

\* every stage that fails counts a drop: no return at the first failure
RxFilterEveryStage(f) ==
    [accept |-> FailedStages(f) = {},
     drops |-> (IF FailedStages(f) \cap {"sig_mode", "len"} # {} THEN 1 ELSE 0)
               + Cardinality(FailedStages(f) \ {"sig_mode", "len"})]

\* the filter stages in order, each returning at its first failure, in a
\* build whose MAX_PACKET_SIZE is max
RxFilterWith(f, max) ==
    IF f.sig_mode # 0 \/ f.len < SIZEOF_RXCONTROL + 28
    THEN [accept |-> FALSE, drops |-> 1]
    ELSE IF BitAnd(f.frame_control, IEEE80211_FCTL_FTYPE) # IEEE80211_FCTL_MGMT
    THEN [accept |-> FALSE, drops |-> 1]
    ELSE IF f.addr3 # custom_bssid
    THEN [accept |-> FALSE, drops |-> 1]
    ELSE IF PayloadLen(f.legacy_length) > max
    THEN [accept |-> FALSE, drops |-> 1]
    ELSE [accept |-> TRUE, drops |-> 0]

RxFilter(f) == RxFilterWith(f, MAX_PACKET_SIZE)

\* the callback up to its first uart_write_bytes call
CbEnter(f) ==
    /\ cb_pc = "idle"
    /\ RadioOpen
    /\ SerialQuiet
    /\ ApiQuiet
    /\ frames_seen < MaxFrames
    /\ frames_seen' = frames_seen + 1
    /\ cb_in' = [failed |-> FailedStages(f), legacy_length |-> f.legacy_length,
                 body |-> f.body, free |-> TxFree, acc |-> Len(tx_accepted),
                 len |-> f.len, rx0 |-> rx_count]
    /\ LET v == RxFilter(f) IN
       IF v.accept
       THEN /\ rx_count' = rx_count + 1
            /\ cb_pc' = "wr_prefix"
            /\ cb_payload' = SubSeq(f.body, 1, PayloadLen(f.legacy_length))
            /\ UNCHANGED rx_drop_count
       ELSE /\ rx_drop_count' = rx_drop_count + v.drops
            /\ cb_pc' = "ret"
            /\ UNCHANGED <<rx_count, cb_payload>>
    /\ UNCHANGED <<rxring, reasm, mainctx, wifitx, hist, txring,
                   tx_accepted, hw_fifo, uwb_last>>

wifi_promiscuous_rx_cb ==
    /\ cb_pc = "idle"
    /\ RadioOpen
    /\ SerialQuiet
    /\ ApiQuiet
    /\ frames_seen < MaxFrames
    /\ \E f \in Frames : CbEnter(f)

\* Captures in a build whose MAX_PACKET_SIZE is CaptureMax: frames that
\* pass the first three filter stages, captured whole or cut to the
\* smallest length the callback accepts (the SDK passes a buffer of fixed
\* size for management frames), announcing CaptureMax - 2 .. CaptureMax + 1
\* payload bytes; body is what the buffer holds behind the header
CaptureLens == {SIZEOF_RXCONTROL + 28, SIZEOF_RXCONTROL + 28 + CaptureMax}

CaptureFrames ==
    {[sig_mode |-> 0, len |-> l, frame_control |-> IEEE80211_FC_PROBE_REQ,
      addr3 |-> custom_bssid, legacy_length |-> ll,
      body |-> Ramp(b, l - SIZEOF_RXCONTROL - IEEE80211_HEADER_SIZE)] :
        l \in CaptureLens,
        ll \in 28 + CaptureMax - 2 .. 28 + CaptureMax + 1,
        b \in PayloadByte}

\* the payload_len bytes at payload[0 ..]: those of the buffer, then
\* whatever lies in memory behind its end
ReadsFrom(f, payload_len) ==
    {p \in [1 .. payload_len -> PayloadByte] :
        \A i \in 1 .. payload_len : i <= Len(f.body) => p[i] = f.body[i]}

\* wifi_promiscuous_rx_cb up to its first uart_write_bytes call, on a
\* capture of that build
CaptureEnter(f) ==
    /\ cb_pc = "idle"
    /\ frames_seen < MaxFrames
    /\ frames_seen' = frames_seen + 1
    /\ cb_in' = [failed |-> {}, legacy_length |-> f.legacy_length,
                 body |-> f.body, free |-> TxFree, acc |-> Len(tx_accepted),
                 len |-> f.len, rx0 |-> rx_count]
    /\ LET v == RxFilterWith(f, CaptureMax) IN
       IF v.accept
       THEN /\ rx_count' = rx_count + 1
            /\ cb_pc' = "wr_prefix"
            /\ cb_payload' \in ReadsFrom(f, PayloadLen(f.legacy_length))
            /\ UNCHANGED rx_drop_count
       ELSE /\ rx_drop_count' = rx_drop_count + v.drops
            /\ cb_pc' = "ret"
            /\ UNCHANGED <<rx_count, cb_payload>>
    /\ UNCHANGED <<rxring, reasm, mainctx, wifitx, hist, txring,
                   tx_accepted, hw_fifo, uwb_last>>

CaptureCb == \E f \in CaptureFrames : CaptureEnter(f)

\* the prefix with its low byte first
LenPrefixLowFirst(payload_len) ==
    <<BitAnd(payload_len, 255), BitAnd(payload_len \div 256, 255)>>

\* len_prefix[0] = (payload_len >> 8) & 0xFF; len_prefix[1] = payload_len & 0xFF
LenPrefix(payload_len) ==
    <<BitAnd(payload_len \div 256, 255), BitAnd(payload_len, 255)>>

\* uart_write_bytes(len_prefix, 2)
CbWritePrefix ==
    /\ cb_pc = "wr_prefix"
    /\ CallWriteBytes(LenPrefix(Len(cb_payload)), 2)
    /\ cb_pc' = "wr_payload"
    /\ UNCHANGED <<rxring, reasm, mainctx, wifitx, hist,
                   rx_count, rx_drop_count, cb_payload, frames_seen, cb_in>>

\* uart_write_bytes(payload, payload_len) and the return
CbWritePayload ==
    /\ cb_pc = "wr_payload"
    /\ CallWriteBytes(cb_payload, Len(cb_payload))
    /\ cb_pc' = "ret"
    /\ cb_payload' = <<>>
    /\ UNCHANGED <<rxring, reasm, mainctx, wifitx, hist,
                   rx_count, rx_drop_count, frames_seen, cb_in>>

\* the TX ring after uart_init
InitTxRing ==
    [buf |-> [i \in 0 .. UART_TX_BUFFER_SIZE - 1 |-> 0], head |-> 0, tail |-> 0,
     ovf |-> 0, ena |-> FALSE, acc |-> <<>>, fifo |-> <<>>, count |-> 0]

\* the whole callback on frame f and TX ring t: the ring when it returns
CbOutput(f, t, st) ==
    IF RxFilter(f).accept
    THEN LET payload_len == PayloadLen(f.legacy_length) IN
         uart_write_bytes(uart_write_bytes(t, LenPrefix(payload_len), 2, st),
                          SubSeq(f.body, 1, payload_len), payload_len, st)
    ELSE t

\* the frame wifi_raw_send built for len payload bytes, as a peer captures
\* it: legacy 802.11b/g, the whole frame and its FCS in the buffer
PeerFrame(frame, len) ==
    [sig_mode |-> 0,
     len |-> SIZEOF_RXCONTROL + IEEE80211_HEADER_SIZE + len + 4,
     frame_control |-> frame.frame_control,
     addr3 |-> frame.addr3,
     legacy_length |-> IEEE80211_HEADER_SIZE + len + 4,
     body |-> [i \in 1 .. len |-> frame.payload[i - 1]]]

\* the callback returns; the record of its frame and of its last
\* uart_write_bytes call ends with it
CbReturn ==
    /\ cb_pc = "ret"
    /\ cb_pc' = "idle"
    /\ cb_in' = NoFrame
    /\ uwb_last' = NoWrite
    /\ UNCHANGED <<rxring, reasm, mainctx, wifitx, hist, txring,
                   rx_count, rx_drop_count, cb_payload, tx_accepted, hw_fifo,
                   frames_seen>>

\* wifi_raw_send is a public function (wifi_raw.h): a direct call from the
\* main context, with any arguments
SendArgs ==
    {[null |-> TRUE, data |-> <<>>, len |-> n] : n \in {0, 1, MAX_PACKET_SIZE + 1}}
    \cup {[null |-> FALSE, data |-> d, len |-> Len(d)] :
              d \in {Ramp(1, n) : n \in 0 .. MAX_PACKET_SIZE + 1}}

ApiSend ==
    /\ MainRuns
    /\ pc = "idle"
    /\ SerialQuiet
    /\ RadioQuiet
    /\ InputOpen
    /\ api_calls < MaxApiCalls
    /\ \E a \in SendArgs :
          /\ ws_args' = a
          /\ ws_caller' = "api"
          /\ pc' = "ws_entry"
    /\ api_calls' = api_calls + 1
    /\ UNCHANGED <<down, rxring, reasm, len_bytes, rd_dest, rd_max, rd_count,
                   wifitx, rx_accepted, rx_consumed, sent, outstanding, seq_log,
                   tick_start, frag, resets, chan>>

\* ------------------------------------ wifi_reset_stats, uart_reset_stats

\* the counter is left at its value
ResetKeeps(old) == old

\* the value a reset function assigns to a counter
ResetTo(old) == 0

\* A reset function is called from the main context, between two ticks; a
\* call that would find all its counters 0 already is left out.  Each store
\* is a step, so that the RX ISR and the radio callbacks run between stores.
wifi_reset_stats ==
    /\ MainRuns
    /\ \/ /\ pc = "idle"
          /\ ResetOpen
          /\ <<tx_count, rx_count, tx_error_count, rx_drop_count>> # <<0, 0, 0, 0>>
          /\ tx_count' = ResetTo(tx_count)
          /\ pc' = "wrs_rx"
          /\ resets' = resets + 1
          /\ UNCHANGED <<rx_count, tx_error_count, rx_drop_count>>
       \/ /\ pc = "wrs_rx"
          /\ UNCHANGED resets
          /\ rx_count' = ResetTo(rx_count)
          /\ pc' = "wrs_err"
          /\ UNCHANGED <<tx_count, tx_error_count, rx_drop_count>>
       \/ /\ pc = "wrs_err"
          /\ UNCHANGED resets
          /\ tx_error_count' = ResetTo(tx_error_count)
          /\ pc' = "wrs_drop"
          /\ UNCHANGED <<tx_count, rx_count, rx_drop_count>>
       \/ /\ pc = "wrs_drop"
          /\ UNCHANGED resets
          /\ rx_drop_count' = ResetTo(rx_drop_count)
          /\ pc' = "idle"
          /\ UNCHANGED <<tx_count, rx_count, tx_error_count>>
    /\ UNCHANGED <<rxring, reasm, len_bytes, rd_dest, rd_max, rd_count, ws_args,
                   ws_caller, tx_frame_buffer, tx_sequence, tx_ready, rx_accepted,
                   rx_consumed, sent, outstanding, seq_log, tick_start, frag,
                   api_calls, chan, txring, cb_pc, cb_payload, histrx>>

uart_reset_stats ==
    /\ MainRuns
    /\ \/ /\ pc = "idle"
          /\ ResetOpen
          /\ <<uart_rx_overflow_count, uart_tx_overflow_count>> # <<0, 0>>
          /\ uart_rx_overflow_count' = ResetTo(uart_rx_overflow_count)
          /\ pc' = "urs_tx"
          /\ resets' = resets + 1
          /\ UNCHANGED uart_tx_overflow_count
       \/ /\ pc = "urs_tx"
          /\ UNCHANGED resets
          /\ uart_tx_overflow_count' = ResetTo(uart_tx_overflow_count)
          /\ pc' = "idle"
          /\ UNCHANGED uart_rx_overflow_count
    /\ UNCHANGED <<rx_size, uart_rx_buffer, uart_rx_head, uart_rx_tail, reasm, len_bytes,
                   rd_dest, rd_max, rd_count, ws_args, ws_caller, wifitx,
                   rx_accepted, rx_consumed, sent, outstanding, seq_log,
                   tick_start, frag, api_calls, chan,
                   uart_tx_buffer, uart_tx_head, uart_tx_tail,
                   txfifo_empty_int_ena, wifirx, histrx>>

\* -------------------------------- wifi_raw_set_channel, wifi_raw_get_channel

\* only channel 0 is refused
ChannelInvalidLowOnly(ch) == ch < 1

\* channel < 1 || channel > 14
ChannelInvalid(ch) == ch < 1 \/ ch > 14

\* uint8_t arguments: both ends of the valid range, its neighbours, the
\* default and the largest value
ChannelArgs == {0, 1, 6, WIFI_DEFAULT_CHANNEL, 14, 15, 255}

wifi_raw_set_channel ==
    /\ Len(chan_log) < MaxChannelCalls
    /\ \E ch \in ChannelArgs :
          /\ chan_log' = Append(chan_log, ch)
          /\ channel' = IF ChannelInvalid(ch) THEN channel ELSE ch
    /\ UNCHANGED <<rxring, reasm, mainctx, wifitx, rx_accepted, rx_consumed,
                   sent, outstanding, seq_log, tick_start, frag, api_calls,
                   resets, down>>

\* return wifi_get_channel();
wifi_raw_get_channel == channel

\* ----------------------------------------------------------- specification

Next ==
    \/ uart0_rx_intr_handler
    \/ TickStart
    \/ ReadCheck
    \/ ReadSlot
    \/ ReadTail
    \/ HdrDone
    \/ AccAvail
    \/ AccChk
    \/ WsEntry
    \/ WsBuild
    \/ WsSend
    \/ wifi_freedom_tx_cb
    \/ wifi_promiscuous_rx_cb
    \/ CbWritePrefix
    \/ CbWritePayload
    \/ CbReturn
    \/ ApiSend
    \/ wifi_reset_stats
    \/ uart_reset_stats

Spec == Init /\ [][Next]_vars

\* The sequence counter close to the wrap of its 12-bit field and of the
\* uint16_t itself: the state after that many frames and a wifi_reset_stats()
SeqStarts == {4095, 65535}

InitSeq == \E seq0 \in SeqStarts : InitFrom(seq0)

SpecSeq == InitSeq /\ [][Next]_vars

\* The six statistics counters are uint32_t.  A counter is kept as the
\* two's-complement reading of its 32 bits, so that the code's ++ is + 1 for
\* every value a run reaches and 0xFFFFFFFF is -1.  InitWrap is the state
\* after 2^32 - 1 events of each kind but serial overflow, of which the
\* bound on a run's serial input keeps the count: five counters are one
\* step from their wrap.
InitWrap == InitAt(0, -1, 0)

SpecWrap == InitWrap /\ [][Next]_vars

\* the build whose RX ring has 2^QueueBits elements: the serial peer can
\* queue two complete records before a tick reads the first
InitQueue == InitSized(QueueBits, 0, 0, 0)

SpecQueue == InitQueue /\ [][Next]_vars

\* The capture callback alone, in the build whose MAX_PACKET_SIZE is
\* CaptureMax.
NextCapture ==
    \/ CaptureCb
    \/ CbWritePrefix
    \/ CbWritePayload
    \/ CbReturn

SpecCapture == Init /\ [][NextCapture]_vars

\* The UART interrupt raised by TXFIFO_EMPTY once uart_write_bytes has set
\* its enable bit.  The handler uart_init attaches is uart0_rx_intr_handler
\* (uart0_tx_intr_handler is attached nowhere), and it tests the RXFIFO_FULL
\* and RXFIFO_TOUT status bits only: with neither set it returns without a
\* store.
TxFifoEmptyIntr ==
    /\ txfifo_empty_int_ena
    /\ UNCHANGED vars

\* a running wifi_promiscuous_rx_cb goes on
CbStepOn == CbWritePrefix \/ CbWritePayload \/ CbReturn

\* The radio-to-serial direction with the interrupts the UART raises: a
\* callback that has begun runs to its end, and an enabled interrupt is
\* dispatched.  Nothing obliges a frame to arrive.
NextDrain ==
    \/ wifi_promiscuous_rx_cb
    \/ CbWritePrefix
    \/ CbWritePayload
    \/ CbReturn
    \/ TxFifoEmptyIntr

SpecDrain ==
    Init /\ [][NextDrain]_vars /\ WF_vars(CbStepOn) /\ WF_vars(TxFifoEmptyIntr)

\* The serial peer sends a stream of valid records, whatever becomes of its
\* bytes: a record of two bytes, then records of one byte.  The bytes the
\* handler has seen so far are those it stored and those it counted as
\* lost, so the next ones are the stream from that position on.
PeerStream == <<0, 2, 1, 2, 0, 1, 2, 0, 1, 1>>

Offered == Len(rx_accepted) + uart_rx_overflow_count

PeerIn ==
    \E n \in 1 .. MaxFifoBatch :
        /\ Offered + n <= Len(PeerStream)
        /\ RxIntr(SubSeq(PeerStream, Offered + 1, Offered + n))

NextPeer ==
    \/ PeerIn
    \/ TickStart
    \/ ReadCheck
    \/ ReadSlot
    \/ ReadTail
    \/ HdrDone
    \/ AccAvail
    \/ AccChk
    \/ WsEntry
    \/ WsBuild
    \/ WsSend
    \/ wifi_freedom_tx_cb

SpecPeer == Init /\ [][NextPeer]_vars

\* Runtime channel changes, from the state user_init leaves
\* (wifi_raw_init(WIFI_DEFAULT_CHANNEL)).
NextChannel == wifi_raw_set_channel

SpecChannel == Init /\ [][NextChannel]_vars

\* The processor runs the handler it has entered: a step of a running
\* wifi_promiscuous_rx_cb is taken, and so is, while no event handler runs,
\* a step of a running tick, wifi_raw_send call or reset call.  Nothing
\* obliges a tick, an interrupt, a frame or a call to begin.
MainStep ==
    /\ pc # "idle"
    /\ \/ ReadCheck
       \/ ReadSlot
       \/ ReadTail
       \/ HdrDone
       \/ AccAvail
       \/ AccChk
       \/ WsEntry
       \/ WsBuild
       \/ WsSend
       \/ wifi_reset_stats
       \/ uart_reset_stats

\* Progress of the serial-to-radio direction.  The serial peer delivers at
\* most LiveInput bytes; main_timer is armed as a repeating timer
\* (os_timer_arm(&main_timer, MAIN_TIMER_PERIOD_MS, 1)), so ticks keep
\* occurring, and a tick that has begun runs on to its end.
SerialIn ==
    /\ uart0_rx_intr_handler
    /\ Len(rx_accepted') + uart_rx_overflow_count' <= LiveInput

TickStep == TickStart \/ MainStep

NextLive ==
    \/ SerialIn
    \/ TickStart
    \/ ReadCheck
    \/ ReadSlot
    \/ ReadTail
    \/ HdrDone
    \/ AccAvail
    \/ AccChk
    \/ WsEntry
    \/ WsBuild
    \/ WsSend
    \/ wifi_freedom_tx_cb

SpecLive == Init /\ [][NextLive]_vars /\ WF_vars(TickStep)

\* The transmit path with its completion notifications: wifi_raw_send is
\* called by the tick or directly, a call that has begun runs on to its
\* return, and the SDK calls wifi_freedom_tx_cb for every frame it has
\* accepted (the callback registered with wifi_register_send_pkt_freedom_cb).
NextNotify == NextLive \/ ApiSend

SpecNotify ==
    Init /\ [][NextNotify]_vars /\ WF_vars(TickStep) /\ WF_vars(wifi_freedom_tx_cb)

\* ------------------------------------------------------------ properties

IsPrefix(a, b) == Len(a) <= Len(b) /\ SubSeq(b, 1, Len(a)) = a

\* big-endian value of the first two bytes of a stream
PrefixValue(s) == s[1] * 256 + s[2]

\* the stream starts with the prefix of a valid record
StartsValid(s) ==
    Len(s) >= 2 /\ PrefixValue(s) >= 1 /\ PrefixValue(s) <= MAX_PACKET_SIZE

\* the payload of the record a stream starts with
FirstPayload(s) == SubSeq(s, 3, 2 + PrefixValue(s))

\* the stream is one valid record, prefix and payload, and nothing else
IsOneRecord(s) == StartsValid(s) /\ Len(s) = 2 + PrefixValue(s)

\* the payloads of the complete records of a stream of length-prefixed
\* records, read from its start; a prefix of 0 or above MAX_PACKET_SIZE
\* is two bytes that carry no record
RECURSIVE Decode(_)
Decode(s) ==
    IF Len(s) < 2 THEN <<>>
    ELSE IF ~StartsValid(s) THEN Decode(SubSeq(s, 3, Len(s)))
    ELSE IF Len(s) < 2 + PrefixValue(s) THEN <<>>
    ELSE <<FirstPayload(s)>> \o Decode(SubSeq(s, 3 + PrefixValue(s), Len(s)))

\* the bytes a stream leaves over after its complete records and its
\* discarded prefixes: the start of an incomplete record
RECURSIVE Pending(_)
Pending(s) ==
    IF Len(s) < 2 THEN s
    ELSE IF ~StartsValid(s) THEN Pending(SubSeq(s, 3, Len(s)))
    ELSE IF Len(s) < 2 + PrefixValue(s) THEN s
    ELSE Pending(SubSeq(s, 3 + PrefixValue(s), Len(s)))

\* the wifi_raw_send calls the tick made
TickCalls == SelectSeq(sent, LAMBDA c : c.caller = "tick")

\* bytes of the RX ring not yet taken by uart_read_bytes, oldest first; in
\* "rd_tail" the byte at uart_rx_tail is taken and the index not yet moved
RxUnread ==
    LET from == IF pc = "rd_tail" THEN RX_INCREMENT(uart_rx_tail) ELSE uart_rx_tail
        n == (uart_rx_head - from) % UART_RX_BUFFER_SIZE
    IN [i \in 1 .. n |-> uart_rx_buffer[(from + i - 1) % UART_RX_BUFFER_SIZE]]

\* bytes of the TX ring not yet written to the UART FIFO, oldest first
TxBuffered ==
    LET n == (uart_tx_head - uart_tx_tail) % UART_TX_BUFFER_SIZE
    IN [i \in 1 .. n |-> uart_tx_buffer[(uart_tx_tail + i - 1) % UART_TX_BUFFER_SIZE]]

\* C1: bridge law.  From the initial state (WAIT_HEADER, empty RX ring,
\* tx_ready set), once the bytes of one valid record [L >> 8][L & 0xFF] and
\* L payload bytes have been stored in the RX ring and the ticks have
\* emptied the ring, exactly one wifi_raw_send call was made, with len = L
\* and the L payload bytes, in order.
C1_BridgeLaw ==
    (pc = "idle" /\ uart_rx_head = uart_rx_tail /\ IsOneRecord(rx_accepted))
    => /\ Len(sent) = 1
       /\ sent[1].caller = "tick"
       /\ ~sent[1].null
       /\ sent[1].len = PrefixValue(rx_accepted)
       /\ sent[1].data = FirstPayload(rx_accepted)

C1_Witness ==
    /\ pc = "idle"
    /\ uart_rx_head = uart_rx_tail
    /\ rx_accepted = <<0, 2, 1, 2>>
    /\ Len(sent) = 1
    /\ sent[1].data = <<1, 2>>
    /\ sent[1].ret = 0

\* C2: fragmentation tolerance.  For a stream that starts with a valid
\* record of length L: no wifi_raw_send call is made while fewer than 2 + L
\* bytes have arrived; a tick that began with the whole record arrived has
\* made the call when it ends; the calls made are, in order and one each,
\* the payloads of the complete records of the stream, all of them once a
\* tick has ended with the ring empty.
C2_Fragmentation ==
    /\ \A i \in 1 .. Len(TickCalls) :
          /\ i <= Len(Decode(rx_accepted))
          /\ TickCalls[i].data = Decode(rx_accepted)[i]
          /\ TickCalls[i].len = Len(TickCalls[i].data)
    /\ (pc = "idle" /\ uart_rx_head = uart_rx_tail)
          => Len(TickCalls) = Len(Decode(rx_accepted))
    /\ StartsValid(rx_accepted) =>
          /\ Len(rx_accepted) < 2 + PrefixValue(rx_accepted) => TickCalls = <<>>
          /\ (pc = "idle" /\ tick_start >= 2 + PrefixValue(rx_accepted))
                => Len(TickCalls) >= 1

\* a record of two bytes was sent after two ticks that ended with it
\* incomplete, one of which found no new byte
C2_Witness ==
    /\ Len(sent) = 1
    /\ sent[1].data = <<1, 2>>
    /\ sent[1].frag.ticks = 2
    /\ sent[1].frag.empty
    /\ rx_accepted = <<0, 2, 1, 2>>

\* C3: FIFO law of both rings under every interleaving of the producer and
\* the consumer: the bytes the consumer obtained so far, followed by the
\* bytes still buffered, are exactly the bytes the producer stored, in the
\* order it stored them.
C3_Fifo ==
    /\ rx_accepted = rx_consumed \o RxUnread
    /\ tx_accepted = hw_fifo \o TxBuffered

\* the RX interrupt stored bytes while a read loop was between taking a
\* byte and moving the read index, with the ring wrapped
C3_Witness ==
    /\ pc = "rd_tail"
    /\ Len(rx_accepted) > tick_start
    /\ uart_rx_head < uart_rx_tail
    /\ Len(rx_consumed) >= 3
    /\ RxUnread # <<>>

\* the uart_write_bytes call a step of the running callback makes
WriteData == IF cb_pc = "wr_prefix" THEN LenPrefix(Len(cb_payload)) ELSE cb_payload
WriteStep == cb_pc \in {"wr_prefix", "wr_payload"} /\ cb_pc' # cb_pc
Overfull == WriteStep /\ Len(WriteData) > TxFree

\* C4: overflow law of the TX ring.  uart_write_bytes(data, len) called with
\* f free slots and len > f stores exactly the first f bytes and returns f,
\* keeps the bytes buffered before the call, in their order and ahead of
\* the new ones (its closing uart0_tx_intr_handler call may move some of
\* them to the UART FIFO), and adds exactly 1 to uart_tx_overflow_count.
C4_Overflow ==
    [][Overfull =>
          /\ tx_accepted' = tx_accepted \o SubSeq(WriteData, 1, TxFree)
          /\ uwb_last'.ret = TxFree
          /\ hw_fifo' \o TxBuffered'
                = hw_fifo \o TxBuffered \o SubSeq(WriteData, 1, TxFree)
          /\ IsPrefix(hw_fifo, hw_fifo')
          /\ uart_tx_overflow_count' = uart_tx_overflow_count + 1]_vars

\* a call with two bytes more than the free slots has returned
C4_Witness ==
    /\ uwb_last.len >= uwb_last.free + 2
    /\ uwb_last.ret = uwb_last.free
    /\ uart_tx_overflow_count >= 1

\* C4 as stated: the read index stays and the counter grows by len - f
C4_AsStated ==
    [][Overfull =>
          /\ tx_accepted' = tx_accepted \o SubSeq(WriteData, 1, TxFree)
          /\ uart_tx_tail' = uart_tx_tail
          /\ uart_tx_overflow_count'
                = uart_tx_overflow_count + (Len(WriteData) - TxFree)]_vars

\* the callback is entered with a captured frame
CbStep == cb_pc = "idle" /\ frames_seen' = frames_seen + 1

\* the acceptance condition for the frame just entered: none of sig_mode,
\* captured length, frame type and addr3 fails, and the computed payload
\* length legacy_length - 24 - 4 is in 1 .. MAX_PACKET_SIZE
ShouldAccept ==
    /\ cb_in'.failed \cap {"sig_mode", "len", "ftype", "addr3"} = {}
    /\ 0 < cb_in'.legacy_length - 24 - 4
    /\ cb_in'.legacy_length - 24 - 4 <= MAX_PACKET_SIZE

\* C5: filter acceptance law.  wifi_promiscuous_rx_cb accepts a captured
\* frame (rx_count + 1, output written) if and only if sig_mode = 0, the
\* captured length is at least sizeof(RxControl) + 28, the frame is a
\* management frame, addr3 is custom_bssid and the computed payload length
\* is in 1 .. MAX_PACKET_SIZE; otherwise it writes nothing and
\* rx_drop_count grows by 1.
C5_AcceptanceLaw ==
    [][CbStep =>
          IF ShouldAccept
          THEN /\ rx_count' = rx_count + 1
               /\ rx_drop_count' = rx_drop_count
               /\ cb_pc' = "wr_prefix"
          ELSE /\ rx_drop_count' = rx_drop_count + 1
               /\ rx_count' = rx_count
               /\ cb_pc' = "ret"
               /\ UNCHANGED <<txring, tx_accepted, hw_fifo>>]_vars

\* C6: a rejected frame, whichever stage rejects it and however many
\* conditions it fails, writes nothing to the TX ring, adds exactly 1 to
\* rx_drop_count and leaves rx_count unchanged.
C6_RejectOnce ==
    [][(CbStep /\ cb_in'.failed # {}) =>
          /\ rx_drop_count' = rx_drop_count + 1
          /\ rx_count' = rx_count
          /\ cb_pc' = "ret"
          /\ UNCHANGED <<txring, tx_accepted, hw_fifo>>]_vars

\* a frame that failed every condition at once was the only frame so far
C6_Witness ==
    /\ frames_seen = 1
    /\ Cardinality(cb_in.failed) = 5
    /\ rx_drop_count = 1
    /\ rx_count = 0
    /\ tx_accepted = <<>>

\* C7: sequence-number law.  The seq_ctrl of every built header has its low
\* 4 bits 0; its 12-bit value in bits [15:4] is the previous built header's
\* value plus 1 modulo 4096, across the wrap of the uint16_t counter too
\* and whatever wifi_send_pkt_freedom returned for the previous frame.
C7_Sequence ==
    /\ \A i \in 1 .. Len(seq_log) : seq_log[i] % 16 = 0
    /\ \A i \in 1 .. Len(seq_log) - 1 :
          seq_log[i + 1] \div 16 = (seq_log[i] \div 16 + 1) % 4096
    /\ seq_log # <<>> => tx_frame_buffer.seq_ctrl = seq_log[Len(seq_log)]

\* two headers were built across the wrap of the 12-bit field, the first
\* of them for a frame that wifi_send_pkt_freedom refused
C7_Witness ==
    /\ seq_log = <<65520, 0>>
    /\ Len(sent) = 2
    /\ sent[1].caller = "tick"
    /\ sent[1].ret = -1
    /\ sent[2].ret = 0

\* the prefix in len_bytes is not the length of a record
PrefixBad == PrefixValue(len_bytes) = 0 \/ PrefixValue(len_bytes) > MAX_PACKET_SIZE

\* the bytes read so far, without the last two, end where a record ends
HeaderAligned ==
    /\ Len(rx_consumed) >= 2
    /\ len_bytes = SubSeq(rx_consumed, Len(rx_consumed) - 1, Len(rx_consumed))
    /\ Pending(SubSeq(rx_consumed, 1, Len(rx_consumed) - 2)) = <<>>

\* C8: malformed-header law.  A prefix of 0 or above MAX_PACKET_SIZE read in
\* WAIT_HEADER ends the tick in WAIT_HEADER with no wifi_raw_send call and no
\* further byte read; every header read is the two bytes that follow the
\* last complete record or discarded prefix of the stream.
C8_Malformed ==
    [][/\ (pc = "hdr_done" /\ pc' # pc /\ PrefixBad) =>
             /\ pc' = "idle"
             /\ pkt_expected' = 0
             /\ pkt_received' = 0
             /\ UNCHANGED <<sent, rx_consumed, uart_rx_tail, packet_buffer>>
       /\ pc' = "hdr_done" => HeaderAligned']_vars

\* a prefix above MAX_PACKET_SIZE was discarded and the record after it sent
C8_Witness ==
    /\ rx_consumed = <<1, 0, 0, 1, 2>>
    /\ Len(sent) = 1
    /\ sent[1].data = <<2>>
    /\ pc = "idle"

\* C9: at most one frame handed to wifi_send_pkt_freedom is waiting for its
\* wifi_freedom_tx_cb, in every reachable state.
C9_OneOutstanding == outstanding <= 1

\* a wifi_raw_send call was refused while a frame was in flight
C9_Witness ==
    /\ outstanding = 1
    /\ tx_ready = 0
    /\ Len(sent) = 2
    /\ sent[1].ret = 0
    /\ sent[2].ret = -1
    /\ tx_count = 1

\* the call in ws_args is one that wifi_raw_send refuses
Refused ==
    \/ ws_args.null
    \/ ws_args.len = 0
    \/ ws_args.len > MAX_PACKET_SIZE
    \/ tx_ready = 0

\* C10: transmit rejection.  wifi_raw_send called with a NULL buffer, len 0,
\* len above MAX_PACKET_SIZE or while tx_ready = 0 returns -1, adds exactly 1
\* to tx_error_count, hands no frame to wifi_send_pkt_freedom and leaves
\* tx_count, tx_sequence, tx_ready and the frame buffer unchanged.
C10_Rejection ==
    [][(pc = "ws_entry" /\ pc' # pc /\ Refused) =>
          /\ pc' = "idle"
          /\ Len(sent') = Len(sent) + 1
          /\ sent'[Len(sent')].ret = -1
          /\ tx_error_count' = tx_error_count + 1
          /\ UNCHANGED <<tx_count, tx_sequence, tx_ready, tx_frame_buffer,
                         outstanding, seq_log>>]_vars

\* a NULL buffer, then an oversized payload, were refused
C10_Witness ==
    /\ Len(sent) = 2
    /\ sent[1].null
    /\ sent[1].ret = -1
    /\ sent[2].len > MAX_PACKET_SIZE
    /\ sent[2].ret = -1
    /\ tx_error_count = 2
    /\ tx_count = 0
    /\ tx_sequence = 0

\* the computed payload length of the last captured frame
LastP == cb_in.legacy_length - 24 - 4

\* the callback has returned from an accepted frame that found 2 + P free
\* slots in the TX ring
AcceptedWithRoom ==
    /\ cb_pc = "ret"
    /\ cb_in.failed = {}
    /\ cb_in.free >= 2 + LastP

RxHeld == Len(rx_accepted) - Len(rx_consumed) + (IF pc = "rd_tail" THEN 1 ELSE 0)

\* bytes stored in the TX ring and not yet moved to the UART FIFO
TxHeld == Len(tx_accepted) - Len(hw_fifo)

\* C12: occupancy invariant.  In each ring head and tail are in 0 .. N - 1,
\* the bytes held number (head - tail) mod N, at most N - 1, head = tail
\* exactly when the ring is empty, and uart_rx_available() returns
\* (uart_rx_head - uart_rx_tail) mod UART_RX_BUFFER_SIZE.
C12_Occupancy ==
    /\ uart_rx_head \in 0 .. UART_RX_BUFFER_SIZE - 1
    /\ uart_rx_tail \in 0 .. UART_RX_BUFFER_SIZE - 1
    /\ uart_tx_head \in 0 .. UART_TX_BUFFER_SIZE - 1
    /\ uart_tx_tail \in 0 .. UART_TX_BUFFER_SIZE - 1
    /\ RxHeld = (uart_rx_head - uart_rx_tail) % UART_RX_BUFFER_SIZE
    /\ TxHeld = (uart_tx_head - uart_tx_tail) % UART_TX_BUFFER_SIZE
    /\ RxHeld <= UART_RX_BUFFER_SIZE - 1
    /\ TxHeld <= UART_TX_BUFFER_SIZE - 1
    /\ (uart_rx_head = uart_rx_tail) <=> (RxHeld = 0)
    /\ (uart_tx_head = uart_tx_tail) <=> (TxHeld = 0)
    /\ uart_rx_available = (uart_rx_head - uart_rx_tail) % UART_RX_BUFFER_SIZE

\* the RX ring is full and wrapped, and a byte was refused
C12_Witness ==
    /\ uart_rx_head < uart_rx_tail
    /\ uart_rx_available = UART_RX_BUFFER_SIZE - 1
    /\ RxHeld = UART_RX_BUFFER_SIZE - 1
    /\ uart_rx_overflow_count >= 1

\* the last n elements of a sequence
Suffix(s, n) == SubSeq(s, Len(s) - n + 1, Len(s))

\* what a peer with an empty TX ring stores for the frame in tx_frame_buffer
PeerStores(st) == CbOutput(PeerFrame(tx_frame_buffer, ws_args.len), InitTxRing, st).acc

Counters ==
    <<tx_count, tx_error_count, rx_count, rx_drop_count,
      uart_rx_overflow_count, uart_tx_overflow_count>>

\* a < b as uint32_t values
ULess(a, b) == IF (a < 0) = (b < 0) THEN a < b ELSE b < 0

\* b is a + 1 modulo 2^32 and the sum has carried over 2^32
U32Wrapped(a, b) == a = -1 /\ b = 0

\* a step of wifi_reset_stats or uart_reset_stats
ResetStep ==
    \/ pc = "idle" /\ pc' \in {"wrs_rx", "urs_tx"}
    \/ pc \in ResetPcs /\ pc' # pc

\* C14 as stated: no step other than a step of a reset function decreases
\* any of the six counters.
C14_AsStated ==
    [][~ResetStep =>
          \A i \in DOMAIN Counters : ~ULess(Counters'[i], Counters[i])]_vars

\* C14 as the code has it: a step other than a step of a reset function
\* decreases a counter only by carrying it over 2^32, from 0xFFFFFFFF to 0.
C14_Monotonic ==
    [][~ResetStep =>
          \A i \in DOMAIN Counters :
             \/ ~ULess(Counters'[i], Counters[i])
             \/ U32Wrapped(Counters[i], Counters'[i])]_vars

\* with no reset call made, serial overflow has been counted and a send has
\* carried tx_count over the wrap
C14_Witness ==
    /\ resets = 0
    /\ tx_count = 0
    /\ uart_rx_overflow_count = 1
    /\ outstanding = 1

\* ------------------------------------------------------------------- C15

\* the step is wifi_freedom_tx_cb
CompletionStep == outstanding' = outstanding - 1

\* the step is the end of a wifi_raw_send call whose frame
\* wifi_send_pkt_freedom refused
FailedSendStep ==
    /\ pc = "ws_send"
    /\ pc' # pc
    /\ sent'[Len(sent')].ret = -1

\* C15 as stated: tx_ready goes from 0 to 1 in no step but a
\* wifi_freedom_tx_cb.
C15_AsStated ==
    [][(tx_ready = 0 /\ tx_ready' = 1) => CompletionStep]_vars

\* C15 as the code has it: tx_ready goes from 0 to 1 in a wifi_freedom_tx_cb
\* or at the end of a wifi_raw_send call whose frame wifi_send_pkt_freedom
\* refused, and in no other step; such a call always ends with tx_ready = 1
\* and no frame in flight.
C15_ReadySetters ==
    [][/\ (tx_ready = 0 /\ tx_ready' = 1) => (CompletionStep \/ FailedSendStep)
       /\ FailedSendStep => (tx_ready = 0 /\ tx_ready' = 1 /\ outstanding' = 0)]_vars

\* a valid call was issued, its header built, and the SDK refused the frame
C15_Witness ==
    /\ Len(sent) = 1
    /\ ~sent[1].null
    /\ sent[1].len = MAX_PACKET_SIZE
    /\ sent[1].ret = -1
    /\ Len(seq_log) = 1
    /\ tx_ready = 1
    /\ pc = "idle"

\* ------------------------------------------------------------------- C16

\* the frame entering the callback passes the sig_mode, frame-type and
\* addr3 tests and its legacy_length - 24 - 4 is zero or negative
NonPositiveLength ==
    /\ cb_in'.failed \cap {"sig_mode", "ftype", "addr3"} = {}
    /\ cb_in'.legacy_length - IEEE80211_HEADER_SIZE - 4 <= 0

\* C16: a captured frame that passes the modulation, frame-type and
\* link-identity filters and has legacy_length <= 28 is rejected: nothing is
\* appended to the TX ring, rx_drop_count grows by 1 and rx_count is
\* unchanged.
C16_NonPositiveRejected ==
    [][(CbStep /\ NonPositiveLength) =>
          /\ cb_pc' = "ret"
          /\ rx_drop_count' = rx_drop_count + 1
          /\ rx_count' = rx_count
          /\ UNCHANGED <<uart_tx_buffer, uart_tx_head, tx_accepted>>]_vars

\* ------------------------------------------------------------------- C17

\* s is a concatenation of complete records [LEN_HI][LEN_LO][LEN bytes]
RECURSIVE Framed(_)
Framed(s) ==
    \/ s = <<>>
    \/ /\ Len(s) >= 2
       /\ Len(s) >= 2 + PrefixValue(s)
       /\ Framed(SubSeq(s, 3 + PrefixValue(s), Len(s)))

\* C17: atomic emission.  Whenever no wifi_promiscuous_rx_cb is running, the
\* bytes accepted into the TX ring so far are a concatenation of complete
\* records: each accepted frame was stored with its prefix and all its
\* payload bytes, or not at all.
C17_AtomicEmission == cb_pc = "idle" => Framed(tx_accepted)

\* ------------------------------------------------------------------- C18

\* C18: the step in which the reassembler discards a length prefix of 0 or
\* above MAX_PACKET_SIZE increases at least one of the six statistics
\* counters.
C18_PrefixCounted ==
    [][(pc = "hdr_done" /\ pc' # pc /\ PrefixBad) =>
          \E i \in DOMAIN Counters : Counters'[i] > Counters[i]]_vars

\* ------------------------------------------------------------------- C19

WifiCounters == <<tx_count, rx_count, tx_error_count, rx_drop_count>>
UartCounters == <<uart_rx_overflow_count, uart_tx_overflow_count>>

\* a step of wifi_reset_stats, of uart_reset_stats
WifiResetStep ==
    \/ pc = "idle" /\ pc' = "wrs_rx"
    \/ pc \in {"wrs_rx", "wrs_err", "wrs_drop"} /\ pc' # pc
UartResetStep ==
    \/ pc = "idle" /\ pc' = "urs_tx"
    \/ pc = "urs_tx" /\ pc' # pc

\* the step in which a reset function returns
ResetReturn == pc \in {"wrs_drop", "urs_tx"} /\ pc' = "idle"

\* C19 as stated: when a reset operation returns, all six counters are 0.
C19_AsStated ==
    [][ResetReturn => (WifiCounters' = <<0, 0, 0, 0>> /\ UartCounters' = <<0, 0>>)]_vars

\* C19 as the code has it: there are two reset operations, one per module.
\* wifi_reset_stats stores 0 to tx_count, rx_count, tx_error_count and
\* rx_drop_count, one after the other, and writes neither UART overflow
\* counter; when it returns, tx_count, tx_error_count and rx_drop_count are
\* 0.  uart_reset_stats stores 0 to uart_rx_overflow_count and then to
\* uart_tx_overflow_count and writes none of the four wifi counters; when it
\* returns, uart_tx_overflow_count is 0.
C19_ResetPerModule ==
    [][/\ WifiResetStep => UNCHANGED UartCounters
       /\ (pc = "idle" /\ pc' = "wrs_rx") => tx_count' = 0
       /\ (pc = "wrs_rx" /\ pc' # pc) => rx_count' = 0
       /\ (pc = "wrs_drop" /\ pc' # pc) =>
             (tx_count' = 0 /\ tx_error_count' = 0 /\ rx_drop_count' = 0)
       /\ UartResetStep => UNCHANGED WifiCounters
       /\ (pc = "idle" /\ pc' = "urs_tx") => uart_rx_overflow_count' = 0
       /\ (pc = "urs_tx" /\ pc' # pc) => uart_tx_overflow_count' = 0]_vars

\* wifi_reset_stats has returned after a successful send: its counters are
\* 0 and the serial overflow counter still holds its count
C19_Witness ==
    /\ resets = 1
    /\ pc = "idle"
    /\ Len(sent) = 1
    /\ sent[1].ret = 0
    /\ WifiCounters = <<0, 0, 0, 0>>
    /\ uart_rx_overflow_count = 1

\* ------------------------------------------------------------------- C20

\* C20: wifi_raw_set_channel(n) with n outside 1 .. 14 leaves the channel
\* unchanged; with n in 1 .. 14 a following wifi_raw_get_channel() returns
\* n; after any sequence of calls the channel is in 1 .. 14.
C20_Channel ==
    [][Len(chan_log') = Len(chan_log) + 1 =>
          LET n == chan_log'[Len(chan_log')] IN
          /\ n \notin 1 .. 14 => channel' = channel
          /\ n \in 1 .. 14 => wifi_raw_get_channel' = n
          /\ wifi_raw_get_channel' \in 1 .. 14]_vars

\* channel 15 was refused after channel 14 had been set, and channel 1 set
\* after that
C20_Witness ==
    /\ chan_log = <<14, 15, 1>>
    /\ wifi_raw_get_channel = 1

\* ------------------------------------------------------------------- C21

\* Steps the main context still has to make, at most, before the tick, the
\* wifi_raw_send call or the reset call it is in has returned: a pass of
\* the uart_read_bytes loop is three steps, and the loop makes at most
\* max_len - count more passes.
AccChkRank == 3 + 1
AccAvailRank == AccChkRank + 3 * MAX_PACKET_SIZE + 2
HdrDoneRank == AccAvailRank + 1
ReadRank(after) ==
    after + 3 * (rd_max - rd_count)
          + (CASE pc = "rd_chk" -> 1 [] pc = "rd_slot" -> 0 [] pc = "rd_tail" -> 2)
MainRank ==
    CASE pc = "idle" -> 0
      [] pc = "ws_send" -> 1
      [] pc = "ws_build" -> 2
      [] pc = "ws_entry" -> 3
      [] pc = "acc_chk" -> AccChkRank
      [] pc = "acc_avail" -> AccAvailRank
      [] pc = "hdr_done" -> HdrDoneRank
      [] pc \in {"rd_chk", "rd_slot", "rd_tail"} ->
            ReadRank(IF rd_dest = "hdr" THEN HdrDoneRank ELSE AccChkRank)
      [] pc = "wrs_rx" -> 3
      [] pc = "wrs_err" -> 2
      [] pc \in {"wrs_drop", "urs_tx"} -> 1

\* the same for a running wifi_promiscuous_rx_cb
CbRank ==
    CASE cb_pc = "idle" -> 0
      [] cb_pc = "ret" -> 1
      [] cb_pc = "wr_payload" -> 2
      [] cb_pc = "wr_prefix" -> 3

\* C21: nothing is fatal and nothing blocks.  Every step of a running tick,
\* wifi_raw_send call or reset call brings its return nearer, whatever the
\* interrupt handler and the radio callbacks do in between (they leave the
\* distance unchanged); the loop of uart_read_bytes makes no more than
\* max_len passes; every step of a running wifi_promiscuous_rx_cb brings
\* its return nearer and the main context makes no step meanwhile; and a
\* tick or call that has not returned never waits: after each of its steps
\* the next one can be taken, up to the return.
C21_Terminates ==
    [][/\ pc # "idle" =>
             IF pc' # pc \/ rd_count' # rd_count
             THEN MainRank' < MainRank
             ELSE MainRank' = MainRank
       /\ MainRank' >= 0
       /\ MainRank' <= HdrDoneRank + 3 * 2 + 1
       /\ rd_count' <= rd_max'
       /\ cb_pc # "idle" => (CbRank' < CbRank /\ pc' = pc)
       /\ (pc' # pc /\ pc' # "idle" /\ cb_pc' = "idle") => (ENABLED MainStep)']_vars

\* a tick is inside its uart_read_bytes loop for the payload, with one pass
\* made and one to go, and the interrupt handler has stored a further byte
\* since the tick began
C21_Witness ==
    /\ pc = "rd_chk"
    /\ rd_dest = "pkt"
    /\ rd_count = 1
    /\ rd_max = MAX_PACKET_SIZE
    /\ Len(rx_accepted) > tick_start

\* ------------------------------------------------------------------- C22

\* the step is a run of uart0_rx_intr_handler
IsrStep ==
    \/ rx_accepted' # rx_accepted
    \/ uart_rx_overflow_count' > uart_rx_overflow_count

\* C22: index ownership.  uart_rx_head changes only in a run of
\* uart0_rx_intr_handler and uart_rx_tail only in the index store of
\* uart_read_bytes; uart_tx_head changes only in a uart_write_bytes call and
\* uart_tx_tail only in uart0_tx_intr_handler, which runs as the last
\* statement of that call: the loop of uart_write_bytes leaves it alone.
\* Every other step (the rest of the tick, wifi_raw_send, the completion
\* callback, the filter, the resets) leaves all four unchanged.
C22_IndexOwnership ==
    [][/\ uart_rx_head' # uart_rx_head => IsrStep
       /\ uart_rx_tail' # uart_rx_tail =>
             (pc = "rd_tail" /\ pc' = "rd_chk" /\ ~IsrStep)
       /\ uart_tx_head' # uart_tx_head => WriteStep
       /\ uart_tx_tail' # uart_tx_tail =>
             /\ WriteStep
             /\ WriteLoop(TxRing, WriteData, Len(WriteData)).tail = uart_tx_tail
             /\ Len(hw_fifo') > Len(hw_fifo)]_vars

\* both indices of the RX ring have moved, the write index past the end of
\* the buffer, and the interrupt handler has met the full ring
C22_Witness ==
    /\ uart_rx_tail = 2
    /\ uart_rx_head = 1
    /\ uart_rx_overflow_count = 1
    /\ pc = "idle"

\* ------------------------------------------------------------------- C23

\* C23: critical sections around shared flags.  Between the test of
\* tx_ready in wifi_raw_send and the store that clears it, no step of the
\* event context (interrupt handler or radio callback) is taken; the
\* update of the TX ring and of the TXFIFO_EMPTY enable bit in
\* uart_write_bytes is one step of the model, made with the UART interrupt
\* disabled.
C23_CriticalSections ==
    [][pc = "ws_build" => (pc' = "ws_send" /\ tx_ready' = 0)]_vars

\* ------------------------------------------------------------------- C24

\* a wifi_raw_send call made by the tick returns
TickSendReturns == ws_caller = "tick" /\ pc \in {"ws_entry", "ws_send"} /\ pc' = "idle"

\* C24: no retry.  The tick calls wifi_raw_send once for a completed
\* payload, with the accumulated bytes, and is back in WAIT_HEADER with
\* pkt_expected = 0 and pkt_received = 0 when the call returns, whatever it
\* returns; a failed call adds 1 to tx_error_count and leaves tx_count alone;
\* the tick makes one call per complete record it has consumed, so a payload
\* is not offered a second time.
C24_NoRetry ==
    [][/\ TickSendReturns =>
             /\ pkt_expected' = 0
             /\ pkt_received' = 0
             /\ Len(sent') = Len(sent) + 1
             /\ sent'[Len(sent')].data = BufferBytes(packet_buffer, pkt_expected)
             /\ sent'[Len(sent')].ret # 0 =>
                   /\ tx_error_count' = tx_error_count + 1
                   /\ tx_count' = tx_count
                   /\ outstanding' = outstanding
       /\ Len(TickCalls') <= Len(Decode(rx_consumed'))
       /\ pc' = "idle" => Len(TickCalls') = Len(Decode(rx_consumed'))]_vars

\* two records were consumed; the first was sent, the second was refused
\* while the first was in flight, and the tick is back in WAIT_HEADER
C24_Witness ==
    /\ pc = "idle"
    /\ pkt_expected = 0
    /\ rx_consumed = <<0, 1, 1, 0, 1, 2>>
    /\ Len(sent) = 2
    /\ sent[1].ret = 0
    /\ sent[2].ret = -1
    /\ sent[2].data = <<2>>
    /\ sent[2].caller = "tick"
    /\ tx_error_count = 1
    /\ uart_rx_head = uart_rx_tail

\* ------------------------------------------------------------------- C25

\* the stream is made of valid records only: no prefix in it is discarded
RECURSIVE NoBadPrefix(_)
NoBadPrefix(s) ==
    IF Len(s) < 2 THEN TRUE
    ELSE IF ~StartsValid(s) THEN FALSE
    ELSE IF Len(s) < 2 + PrefixValue(s) THEN TRUE
    ELSE NoBadPrefix(SubSeq(s, 3 + PrefixValue(s), Len(s)))

\* the complete records stored in the ring when the running tick began
QueuedAtTickStart == Decode(SubSeq(rx_accepted, 1, tick_start))

\* the running tick ends
TickEnds == pc # "idle" /\ pc' = "idle" /\ pc \notin ResetPcs /\ ws_caller # "api"

\* C25: packet ordering.  While no byte was lost to an overflow of the RX
\* ring: the k-th wifi_raw_send call of the tick carries the payload of the
\* k-th complete record of the stream; the call is the last step of its
\* tick, so a tick makes at most one call, also with further complete
\* records queued; the bytes read from the ring never reach past the record
\* that follows the last call; and in a stream of valid records, a tick that
\* began with a complete record queued and not yet sent ends with its call.
C25_Ordering ==
    [][uart_rx_overflow_count = 0 =>
          /\ TickSendReturns =>
                /\ Len(sent') = Len(sent) + 1
                /\ Len(TickCalls') = Len(TickCalls) + 1
                /\ Len(TickCalls') <= Len(Decode(rx_accepted))
                /\ sent'[Len(sent')].data = Decode(rx_accepted)[Len(TickCalls')]
                /\ sent'[Len(sent')].len = Len(sent'[Len(sent')].data)
          /\ TickCalls' # TickCalls => TickSendReturns
          /\ Len(Decode(rx_consumed')) <= Len(TickCalls') + 1
          /\ Len(rx_consumed') <= Len(rx_consumed) + 1
          /\ (TickEnds /\ NoBadPrefix(rx_accepted)
                /\ Len(QueuedAtTickStart) > Len(TickCalls))
                => TickSendReturns]_vars

\* two complete records were in the ring when a tick began; the tick has
\* ended with one call, the first payload, and the second record is still
\* in the ring
C25_Witness ==
    /\ rx_size = 2 ^ QueueBits
    /\ pc = "idle"
    /\ tick_start = 6
    /\ rx_accepted = <<0, 1, 1, 0, 1, 2>>
    /\ rx_consumed = <<0, 1, 1>>
    /\ RxUnread = <<0, 1, 2>>
    /\ Len(sent) = 1
    /\ sent[1].data = <<1>>
    /\ sent[1].frag = NoFrag

\* ------------------------------------------------------------------- C26

\* what a tick without enough data must leave alone
Reassembly == <<pkt_expected, pkt_received, packet_buffer, uart_rx_tail, rx_consumed, sent>>

\* C26: state persistence on insufficient data.  From WAIT_HEADER with
\* fewer than 2 bytes available no step starts a read: the tick ends where
\* it began, with pkt_expected = 0, the read index and the bytes consumed
\* unchanged.  In ACCUMULATE the record is incomplete when the tick begins;
\* the tick's first step changes nothing; when uart_rx_available() then
\* returns 0 the tick goes to its completion test without reading, and the
\* completion test of an incomplete record ends the tick: none of these
\* steps changes pkt_expected, pkt_received, packet_buffer or uart_rx_tail,
\* and none calls wifi_raw_send.
C26_Persistence ==
    [][/\ (pc = "idle" /\ pkt_expected = 0 /\ uart_rx_available < 2) =>
             /\ pc' \in {"idle", "ws_entry"} \cup ResetPcs
             /\ pc' = "ws_entry" => ws_caller' = "api"
             /\ UNCHANGED Reassembly
       /\ (pc = "idle" /\ pkt_expected > 0) =>
             /\ pkt_received < pkt_expected
             /\ pc' \in {"idle", "acc_avail", "ws_entry"} \cup ResetPcs
             /\ UNCHANGED Reassembly
       /\ (pc = "acc_avail" /\ pc' # pc /\ uart_rx_available = 0) =>
             /\ pkt_received < pkt_expected
             /\ pc' = "acc_chk"
             /\ UNCHANGED Reassembly
       /\ (pc = "acc_chk" /\ pc' # pc /\ pkt_received < pkt_expected) =>
             /\ pc' = "idle"
             /\ UNCHANGED Reassembly]_vars

\* a tick in ACCUMULATE found no byte and has ended: the first byte of a
\* record of two is still held, and no call was made
C26_Witness ==
    /\ pc = "idle"
    /\ pkt_expected = 2
    /\ pkt_received = 1
    /\ packet_buffer[0] = 1
    /\ frag.empty
    /\ tick_start = 3
    /\ rx_accepted = <<0, 2, 1>>
    /\ rx_consumed = <<0, 2, 1>>
    /\ sent = <<>>

\* ------------------------------------------------------------------- C27

\* the reassembler is in ACCUMULATE
InAccumulate == pkt_expected > 0

\* the bytes the record still lacks are in the ring
Supplied == Len(RxUnread) >= pkt_expected - pkt_received

\* C27: reassembly progress.  With ticks that keep occurring, from a state
\* in ACCUMULATE in which the ring holds the bytes the record still lacks,
\* the reassembler is eventually back in WAIT_HEADER; it leaves ACCUMULATE
\* only when a wifi_raw_send call made with the pkt_expected accumulated
\* bytes returns, all of them received: never by a timeout, however many
\* ticks end with the record incomplete.
C27_Progress ==
    /\ (InAccumulate /\ Supplied) ~> (pkt_expected = 0)
    /\ [][(InAccumulate /\ pkt_expected' # pkt_expected) =>
             /\ TickSendReturns
             /\ pkt_expected' = 0
             /\ pkt_received = pkt_expected
             /\ sent'[Len(sent')].len = pkt_expected
             /\ sent'[Len(sent')].data = BufferBytes(packet_buffer, pkt_expected)]_vars

\* a record of two bytes was sent after two ticks had ended with it
\* incomplete, one of them without a byte to read
C27_Witness ==
    /\ pc = "idle"
    /\ pkt_expected = 0
    /\ Len(sent) = 1
    /\ sent[1].len = 2
    /\ sent[1].data = <<2, 1>>
    /\ sent[1].frag.ticks = 2
    /\ sent[1].frag.empty
    /\ rx_consumed = <<0, 2, 2, 1>>

\* ------------------------------------------------------------------- C28

\* what one run of uart0_rx_intr_handler that finds bytes in the hardware
\* FIFO does: the bytes that fit are stored in order behind the buffered
\* ones, each of the others is discarded and counted
IsrEffect(bytes) ==
    LET held == (uart_rx_head - uart_rx_tail) % UART_RX_BUFFER_SIZE
        free == UART_RX_BUFFER_SIZE - 1 - held
        k == IF Len(bytes) < free THEN Len(bytes) ELSE free
    IN /\ rx_accepted' = rx_accepted \o SubSeq(bytes, 1, k)
       /\ RxUnread' = RxUnread \o SubSeq(bytes, 1, k)
       /\ uart_rx_overflow_count' = uart_rx_overflow_count + (Len(bytes) - k)
       /\ uart_rx_head' = (uart_rx_head + k) % UART_RX_BUFFER_SIZE
       /\ uart_rx_tail' = uart_rx_tail
       /\ k = 0 => uart_rx_buffer' = uart_rx_buffer

\* C28: inbound overflow drops the newest data.  A byte that
\* uart0_rx_intr_handler receives while the RX ring holds
\* UART_RX_BUFFER_SIZE - 1 bytes is discarded: uart_rx_head, uart_rx_tail
\* and the buffer are unchanged and uart_rx_overflow_count grows by one for
\* each such byte; the bytes buffered before the interrupt are still
\* buffered, in their order, after it.
C28_DropNewest ==
    [][IsrStep => \E bytes \in FifoBatches : IsrEffect(bytes)]_vars

\* two bytes were discarded, in two interrupts or in one, with the ring
\* full of three bytes no tick has read
C28_Witness ==
    /\ uart_rx_overflow_count = 2
    /\ rx_accepted = <<0, 1, 2>>
    /\ RxUnread = <<0, 1, 2>>
    /\ uart_rx_head = 3
    /\ uart_rx_tail = 0
    /\ rx_consumed = <<>>

\* ------------------------------------------------------------------- C29

\* C29: a uart_write_bytes(data, len) call changes uart_tx_overflow_count
\* if and only if it returns less than len, the return value being the
\* number of bytes it stored; a call that stores all its bytes, also one
\* that fills the ring to its last free slot, and a call with len = 0
\* leave the counter unchanged.
C29_OverflowIffShort ==
    [][WriteStep =>
          /\ uwb_last'.len = Len(WriteData)
          /\ uwb_last'.ret = Len(tx_accepted') - Len(tx_accepted)
          /\ uwb_last'.ret <= uwb_last'.len
          /\ (uart_tx_overflow_count' # uart_tx_overflow_count)
                <=> (uwb_last'.ret < uwb_last'.len)
          /\ uwb_last'.len = 0 => uart_tx_overflow_count' = uart_tx_overflow_count]_vars

\* a call of two bytes found two free slots: it stored both, the ring is
\* full and nothing was counted
C29_Witness ==
    /\ uwb_last = [len |-> 2, free |-> 2, ret |-> 2]
    /\ TxFree = 0
    /\ uart_tx_overflow_count = 0

\* ------------------------------------------------------------------- C30

\* wifi_send_pkt_freedom is called
HandedOver == pc = "ws_send" /\ pc' # pc

\* C30: header construction.  The frame wifi_raw_send hands to
\* wifi_send_pkt_freedom for a payload of length L is passed with length
\* 24 + L and has frame_control = 0x0040, duration 0, addr1 the broadcast
\* address, addr3 = custom_bssid and, behind the header, the L bytes of the
\* payload in order; the call does not change the frame; addr3 of the frame
\* buffer is custom_bssid from the first frame built onwards.
C30_Header ==
    [][/\ HandedOver =>
             /\ sent'[Len(sent')].frame_len = 24 + ws_args.len
             /\ sent'[Len(sent')].len = ws_args.len
             /\ ws_args.len \in 1 .. MAX_PACKET_SIZE
             /\ tx_frame_buffer.frame_control = 64
             /\ tx_frame_buffer.duration_id = 0
             /\ tx_frame_buffer.addr1 = <<255, 255, 255, 255, 255, 255>>
             /\ tx_frame_buffer.addr3 = custom_bssid
             /\ \A i \in 1 .. ws_args.len :
                   tx_frame_buffer.payload[i - 1] = ws_args.data[i]
             /\ tx_frame_buffer' = tx_frame_buffer
       /\ tx_frame_buffer.addr3 = custom_bssid
             => tx_frame_buffer'.addr3 = custom_bssid
       /\ seq_log' # <<>> => tx_frame_buffer'.addr3 = custom_bssid]_vars

\* a frame of 24 + 2 bytes was handed over and accepted by the SDK: the
\* payload read from the serial line lies behind the header
C30_Witness ==
    /\ Len(sent) = 1
    /\ sent[1].frame_len = 26
    /\ sent[1].ret = 0
    /\ sent[1].data = <<2, 1>>
    /\ outstanding = 1
    /\ tx_frame_buffer.payload[0] = 2
    /\ tx_frame_buffer.payload[1] = 1
    /\ tx_frame_buffer.addr3 = custom_bssid
    /\ tx_frame_buffer.frame_control = 64

\* ------------------------------------------------------------------- C31

\* C31: captured-buffer bound.  The bytes wifi_promiscuous_rx_cb reads of a
\* payload it forwards (uart_write_bytes reads payload[i] for each byte it
\* stores) lie inside the buffer it was given: sizeof(struct RxControl) + 24
\* + the number of bytes read is at most len.
C31_CapturedBound ==
    [][(cb_pc = "wr_payload" /\ cb_pc' # cb_pc) =>
          SIZEOF_RXCONTROL + IEEE80211_HEADER_SIZE + uwb_last'.ret <= cb_in.len]_vars

\* ------------------------------------------------------------------- C32

C33_Drains == (TxBuffered # <<>>) ~> (TxBuffered = <<>>)

\* ------------------------------------------------------------------- C34

\* the payloads of the records of a stream
Payloads(s) == {Decode(s)[k] : k \in 1 .. Len(Decode(s))}

\* C34: framing survives inbound overflow.  The serial peer sends valid
\* records; whatever bytes the full RX ring drops, each payload the tick
\* hands to wifi_raw_send is the whole payload of one record of the stream
\* sent.
C34_FramingSurvives ==
    \A i \in 1 .. Len(TickCalls) : TickCalls[i].data \in Payloads(PeerStream)

\* ------------------------------------------------------------------- C35

\* the record of the frame the callback was entered with is in the TX
\* ring, whole: the frame passed the filter and its two prefix bytes and
\* all its payload bytes were stored
Delivered ==
    /\ cb_in.failed = {}
    /\ Len(tx_accepted) - cb_in.acc = 2 + PayloadLen(cb_in.legacy_length)

\* C35: rx_count counts delivered frames.  When wifi_promiscuous_rx_cb
\* returns, rx_count is one more than when it was entered if the whole
\* record of the frame was stored in the TX ring, and unchanged if the frame
\* was filtered out or its record was cut short by a full ring.
C35_CountsDelivered ==
    cb_pc = "ret" =>
        rx_count = cb_in.rx0 + (IF Delivered THEN 1 ELSE 0)

\* ------------------------------------------------------------------- C36

\* the step in which a wifi_raw_send call returns
SendReturns == Len(sent') = Len(sent) + 1

\* the value wifi_send_pkt_freedom returned in the call that returns, -1 if
\* the call did not get that far
Returned == sent'[Len(sent')].ret

\* C36 as stated: every wifi_raw_send call makes exactly one of tx_count and
\* tx_error_count greater and leaves the other alone, and every
\* wifi_promiscuous_rx_cb invocation does so for rx_count and rx_drop_count.
C36_AsStated ==
    [][/\ SendReturns =>
             \/ ULess(tx_count, tx_count') /\ UNCHANGED tx_error_count
             \/ ULess(tx_error_count, tx_error_count') /\ UNCHANGED tx_count
       /\ CbStep =>
             \/ ULess(rx_count, rx_count') /\ UNCHANGED rx_drop_count
             \/ ULess(rx_drop_count, rx_drop_count') /\ UNCHANGED rx_count]_vars

\* C36 as the code has it, the counters being uint32_t: every wifi_raw_send
\* call adds 1 modulo 2^32 to exactly one of tx_count and tx_error_count, to
\* tx_count if and only if wifi_send_pkt_freedom accepted the frame; every
\* wifi_promiscuous_rx_cb invocation adds 1 modulo 2^32 to exactly one of
\* rx_count and rx_drop_count; no other step than a store of
\* wifi_reset_stats changes any of the four.  So, with the counters started
\* at 0xFFFFFFFF and no reset made, tx_count + tx_error_count + 2 is the
\* number of wifi_raw_send calls, tx_count + 1 the number of frames
\* accepted and rx_count + rx_drop_count + 2 the number of invocations, all
\* modulo 2^32.
C36_Accounting ==
    /\ [](resets = 0 =>
            /\ tx_count + tx_error_count + 2 = Len(sent)
            /\ tx_count + 1 = Len(SelectSeq(sent, LAMBDA c : c.ret = 0))
            /\ rx_count + rx_drop_count + 2
                  = frames_seen)
    /\ [][/\ SendReturns =>
                IF Returned = 0
                THEN tx_count' = tx_count + 1 /\ UNCHANGED tx_error_count
                ELSE tx_error_count' = tx_error_count + 1 /\ UNCHANGED tx_count
          /\ CbStep =>
                \/ rx_count' = rx_count + 1 /\ UNCHANGED rx_drop_count
                \/ rx_drop_count' = rx_drop_count + 1 /\ UNCHANGED rx_count
          /\ (~SendReturns /\ ~WifiResetStep) =>
                UNCHANGED <<tx_count, tx_error_count>>
          /\ (~CbStep /\ ~WifiResetStep) =>
                UNCHANGED <<rx_count, rx_drop_count>>]_vars

\* two wifi_raw_send calls have returned, one with a frame accepted and one
\* refused, and each has carried its counter from 0xFFFFFFFF to 0
C36_Witness ==
    /\ resets = 0
    /\ Len(sent) = 2
    /\ sent[1].ret = 0
    /\ sent[2].ret = -1
    /\ tx_count = 0
    /\ tx_error_count = 0

\* ------------------------------------------------------------------- C37

\* the main context is inside the body of wifi_raw_send
InSend == pc \in {"ws_entry", "ws_build", "ws_send"}

\* C37: no stuck busy flag.  Outside the body of wifi_raw_send, tx_ready is
\* 0 exactly when one frame accepted by wifi_send_pkt_freedom awaits its
\* completion notification; a wifi_raw_send call that fails returns with
\* tx_ready = 1 unless it was rejected with tx_ready = 0, which it leaves 0;
\* and, completion notifications being delivered, whenever tx_ready is 0 it
\* becomes 1 again, however wifi_freedom_tx_cb interleaves with
\* wifi_raw_send.
C37_NoStuckFlag ==
    /\ [](~InSend => (tx_ready = 0 <=> outstanding = 1))
    /\ [][(SendReturns /\ Returned = -1) =>
             \/ tx_ready' = 1
             \/ pc = "ws_entry" /\ tx_ready = 0 /\ tx_ready' = 0]_vars
    /\ (tx_ready = 0) ~> (tx_ready = 1)

\* a call made while a frame was in flight has been rejected, the
\* notification for the frame has come since, and the flag is 1 again
C37_Witness ==
    /\ pc = "idle"
    /\ Len(sent) = 2
    /\ sent[1].ret = 0
    /\ sent[2].ret = -1
    /\ sent[2].frame_len = 0
    /\ sent[2].len \in 1 .. MAX_PACKET_SIZE
    /\ ~sent[2].null
    /\ outstanding = 0
    /\ tx_ready = 1

====
